---- MODULE Spec2Model ----
(***************************************************************************)
(* BrainBlitz: the mastery state machine (lib/mastery.ts), the active      *)
(* recall queue (lib/quizEngine.ts) and the quiz runner that drives them   *)
(* (QuizTab.tsx, QuizRunner.tsx).                                          *)
(*                                                                         *)
(* Six specifications share the variables below:                           *)
(*   MasterySpec  - updateMastery applied to arbitrary input states        *)
(*   RequeueSpec  - requeueQuestionForActiveRecall on arbitrary queues     *)
(*   SelectSpec   - selectQuestions in its three modes on arbitrary input  *)
(*   SummarySpec  - computeQuizSummary on arbitrary answer logs            *)
(*   Spec         - a quiz run: start, answer, database write, next, stop  *)
(*   FlagSpec     - Spec with the Bad Question button and its modal        *)
(* A specification leaves the variables of the others at their idle        *)
(* values.                                                                 *)
(***************************************************************************)
EXTENDS Integers, Sequences, FiniteSets, TLC

VARIABLES
    \* ---- MasterySpec ----
    mInit,          \* the MasteryState the sequence of answers started from
    mPrev,          \* the MasteryState before the last updateMastery call
    mState,         \* the current MasteryState
    mHist,          \* the outcomes applied so far (TRUE = correct), in order
    \* ---- RequeueSpec ----
    rqPrev,         \* the runtime state handed to handleRequeueForRecall
    rqResult,       \* what requeueQuestionForActiveRecall returned for it
    rqAfter,        \* the runtime state handleRequeueForRecall produced
    rqCalls,        \* number of requeue calls made so far
    \* ---- SelectSpec ----
    selParams,      \* the SelectQuestionsParams of the call
    selPc,          \* where the call is: "call" | "loop" | "done"
    selLocal,       \* locals of selectQuestionsTargetWeakness and its last draw
    selResult,      \* the SelectQuestionsResult (and the pool after the call)
    \* ---- SummarySpec ----
    sumArgs,        \* the arguments of computeQuizSummary
    sumResult,      \* the QuizSummary computed last
    \* ---- Spec (QuizTab / QuizRunner) ----
    mode,           \* QuizTab mode: "setup" | "running" | "summary"
    isLoading,      \* QuizTab isLoading (fetchData under way)
    tabQuestions,   \* QuizTab questions state
    questionRows,   \* persisted quiz_questions rows of the session
    activeRecall,   \* quizConfig.activeRecall
    runtimeState,   \* QuizTab runtimeState (QuizRuntimeState)
    concepts,       \* QuizTab concepts state: concept id -> MasteryState
    db,             \* persisted concepts rows: concept id -> MasteryState
    inflight,       \* handleAnswer calls suspended at the await, in call order
    hasAnswered,    \* QuizRunner hasAnswered
    badQuestionId,  \* SessionDetailClient badQuestionId (the question flagged)
    quizStart,      \* concepts as they were when the run started
    answered,       \* answers given since the tab was opened
    runs,           \* quiz runs started since the tab was opened
    lastStep        \* the handler that ran last, with its inputs

masteryVars == <<mInit, mPrev, mState, mHist>>
requeueVars == <<rqPrev, rqResult, rqAfter, rqCalls>>
selectVars  == <<selParams, selPc, selLocal, selResult>>
summaryVars == <<sumArgs, sumResult>>
runnerVars  == <<mode, isLoading, tabQuestions, questionRows, activeRecall,
                 runtimeState, concepts, db,
                 inflight, hasAnswered, badQuestionId, quizStart, answered, runs,
                 lastStep>>
vars == <<mInit, mPrev, mState, mHist, rqPrev, rqResult, rqAfter, rqCalls,
          selParams, selPc, selLocal, selResult, sumArgs, sumResult,
          mode, isLoading, tabQuestions, questionRows, activeRecall, runtimeState,
          concepts, db,
          inflight, hasAnswered, badQuestionId, quizStart, answered, runs,
          lastStep>>

(***************************************************************************)
(* Bounds                                                                  *)
(***************************************************************************)
MaxStreak == 2          \* largest streak value of an input MasteryState
MaxAnswers == 4         \* longest sequence of answers in MasterySpec

(***************************************************************************)
(* lib/constants.ts, lib/mastery.ts                                        *)
(***************************************************************************)
MASTERY_LEVELS == <<"Cooked", "Meh", "There's Hope", "Locked in">>

MasteryLevel == {MASTERY_LEVELS[i] : i \in DOMAIN MASTERY_LEVELS}

LevelIndex(l) == CHOOSE i \in DOMAIN MASTERY_LEVELS : MASTERY_LEVELS[i] = l

INITIAL_MASTERY_STATE ==
    [level |-> "Cooked", streakCorrect |-> 0, streakIncorrect |-> 0]

\* Faulty variant: the Cooked threshold is tested with > instead of >=.
updateMasteryOnCorrect_LateCooked(prev) ==
    LET newStreakCorrect == prev.streakCorrect + 1
        newStreakIncorrect == 0
        stay == [prev EXCEPT !.streakCorrect = newStreakCorrect,
                             !.streakIncorrect = newStreakIncorrect]
    IN CASE prev.level = "Cooked" ->
              IF newStreakCorrect > 3
              THEN [level |-> "Meh", streakCorrect |-> 0,
                    streakIncorrect |-> newStreakIncorrect]
              ELSE stay
         [] prev.level = "Meh" ->
              IF newStreakCorrect >= 2
              THEN [level |-> "There's Hope", streakCorrect |-> 0,
                    streakIncorrect |-> newStreakIncorrect]
              ELSE stay
         [] prev.level = "There's Hope" ->
              IF newStreakCorrect >= 2
              THEN [level |-> "Locked in", streakCorrect |-> 0,
                    streakIncorrect |-> newStreakIncorrect]
              ELSE stay
         [] prev.level = "Locked in" -> stay

\* Faulty variant: the Locked in case resets streakCorrect like the cases above it.
updateMasteryOnCorrect_LockedReset(prev) ==
    LET newStreakCorrect == prev.streakCorrect + 1
        newStreakIncorrect == 0
        stay == [prev EXCEPT !.streakCorrect = newStreakCorrect,
                             !.streakIncorrect = newStreakIncorrect]
    IN CASE prev.level = "Cooked" ->
              IF newStreakCorrect >= 3
              THEN [level |-> "Meh", streakCorrect |-> 0,
                    streakIncorrect |-> newStreakIncorrect]
              ELSE stay
         [] prev.level = "Meh" ->
              IF newStreakCorrect >= 2
              THEN [level |-> "There's Hope", streakCorrect |-> 0,
                    streakIncorrect |-> newStreakIncorrect]
              ELSE stay
         [] prev.level = "There's Hope" ->
              IF newStreakCorrect >= 2
              THEN [level |-> "Locked in", streakCorrect |-> 0,
                    streakIncorrect |-> newStreakIncorrect]
              ELSE stay
         [] prev.level = "Locked in" ->
              [prev EXCEPT !.streakCorrect = 0,
                           !.streakIncorrect = newStreakIncorrect]

\* updateMasteryOnCorrect: streakCorrect + 1, streakIncorrect = 0, and a
\* promotion (with streakCorrect back to 0) once the level's threshold is met.
updateMasteryOnCorrect(prev) ==
    LET newStreakCorrect == prev.streakCorrect + 1
        newStreakIncorrect == 0
        stay == [prev EXCEPT !.streakCorrect = newStreakCorrect,
                             !.streakIncorrect = newStreakIncorrect]
    IN CASE prev.level = "Cooked" ->
              IF newStreakCorrect >= 3
              THEN [level |-> "Meh", streakCorrect |-> 0,
                    streakIncorrect |-> newStreakIncorrect]
              ELSE stay
         [] prev.level = "Meh" ->
              IF newStreakCorrect >= 2
              THEN [level |-> "There's Hope", streakCorrect |-> 0,
                    streakIncorrect |-> newStreakIncorrect]
              ELSE stay
         [] prev.level = "There's Hope" ->
              IF newStreakCorrect >= 2
              THEN [level |-> "Locked in", streakCorrect |-> 0,
                    streakIncorrect |-> newStreakIncorrect]
              ELSE stay
         [] prev.level = "Locked in" -> stay

\* Faulty variant: the incorrect branch forgets to reset streakCorrect.
updateMasteryOnIncorrect_KeepsCorrect(prev) ==
    LET newStreakIncorrect == prev.streakIncorrect + 1
        newStreakCorrect == prev.streakCorrect
        stay == [prev EXCEPT !.streakCorrect = newStreakCorrect,
                             !.streakIncorrect = newStreakIncorrect]
    IN CASE prev.level = "Cooked" -> stay
         [] prev.level = "Meh" ->
              IF newStreakIncorrect >= 2
              THEN [level |-> "Cooked", streakCorrect |-> newStreakCorrect,
                    streakIncorrect |-> 0]
              ELSE stay
         [] prev.level = "There's Hope" ->
              IF newStreakIncorrect >= 2
              THEN [level |-> "Meh", streakCorrect |-> newStreakCorrect,
                    streakIncorrect |-> 0]
              ELSE stay
         [] prev.level = "Locked in" ->
              IF newStreakIncorrect >= 2
              THEN [level |-> "There's Hope", streakCorrect |-> newStreakCorrect,
                    streakIncorrect |-> 0]
              ELSE stay

\* Faulty variant: a demotion keeps the incorrect streak instead of resetting it.
updateMasteryOnIncorrect_NoStreakReset(prev) ==
    LET newStreakIncorrect == prev.streakIncorrect + 1
        newStreakCorrect == 0
        stay == [prev EXCEPT !.streakCorrect = newStreakCorrect,
                             !.streakIncorrect = newStreakIncorrect]
    IN CASE prev.level = "Cooked" -> stay
         [] prev.level = "Meh" ->
              IF newStreakIncorrect >= 2
              THEN [level |-> "Cooked", streakCorrect |-> newStreakCorrect,
                    streakIncorrect |-> newStreakIncorrect]
              ELSE stay
         [] prev.level = "There's Hope" ->
              IF newStreakIncorrect >= 2
              THEN [level |-> "Meh", streakCorrect |-> newStreakCorrect,
                    streakIncorrect |-> newStreakIncorrect]
              ELSE stay
         [] prev.level = "Locked in" ->
              IF newStreakIncorrect >= 2
              THEN [level |-> "There's Hope", streakCorrect |-> newStreakCorrect,
                    streakIncorrect |-> newStreakIncorrect]
              ELSE stay

\* updateMasteryOnIncorrect: streakIncorrect + 1, streakCorrect = 0, and a
\* demotion (with streakIncorrect back to 0) at the second incorrect answer.
updateMasteryOnIncorrect(prev) ==
    LET newStreakIncorrect == prev.streakIncorrect + 1
        newStreakCorrect == 0
        stay == [prev EXCEPT !.streakCorrect = newStreakCorrect,
                             !.streakIncorrect = newStreakIncorrect]
    IN CASE prev.level = "Cooked" -> stay
         [] prev.level = "Meh" ->
              IF newStreakIncorrect >= 2
              THEN [level |-> "Cooked", streakCorrect |-> newStreakCorrect,
                    streakIncorrect |-> 0]
              ELSE stay
         [] prev.level = "There's Hope" ->
              IF newStreakIncorrect >= 2
              THEN [level |-> "Meh", streakCorrect |-> newStreakCorrect,
                    streakIncorrect |-> 0]
              ELSE stay
         [] prev.level = "Locked in" ->
              IF newStreakIncorrect >= 2
              THEN [level |-> "There's Hope", streakCorrect |-> newStreakCorrect,
                    streakIncorrect |-> 0]
              ELSE stay

updateMastery(prev, isCorrect) ==
    IF isCorrect THEN updateMasteryOnCorrect(prev)
                 ELSE updateMasteryOnIncorrect(prev)


(***************************************************************************)
(* Session data: the quiz_questions rows of the session, two questions on  *)
(* the same concept, and the bounds of the runs explored.                  *)
(***************************************************************************)
MaxTotalAnswers == 3    \* answers given since the tab was opened
MaxRuns == 1            \* quiz runs started since the tab was opened
MaxInflight == 2        \* handleAnswer calls suspended at the same time
MaxRqLen == 2           \* longest input queue in RequeueSpec

\* The sessions explored: one question, or two questions on the same concept.
SessionRows ==
    { << [id |-> "q1", concept_id |-> "c1", topic_id |-> "t1",
          options |-> <<"a", "b">>, correct_option_index |-> 0] >>,
      << [id |-> "q1", concept_id |-> "c1", topic_id |-> "t1",
          options |-> <<"a", "b">>, correct_option_index |-> 0],
         [id |-> "q2", concept_id |-> "c1", topic_id |-> "t1",
          options |-> <<"a", "b">>, correct_option_index |-> 1] >> }

QuestionIds == {"q1", "q2"}

ConceptIds == {"c1"}

TopicIds == {"t1"}

\* The names of the session's concept and topic rows.
ConceptNames == [c \in ConceptIds |-> "Concept " \o c]

TopicNames == [t \in TopicIds |-> "Topic " \o t]

\* The concept rows a session can start with.
StartMasteries ==
    {INITIAL_MASTERY_STATE,
     [level |-> "Meh", streakCorrect |-> 1, streakIncorrect |-> 0]}

(***************************************************************************)
(* lib/quizTypes.ts                                                        *)
(***************************************************************************)
MAX_QUESTION_APPEARANCES == 3

QUESTION_COUNTS == {10, 25, 50}

INITIAL_RUNTIME_STATE ==
    [questionQueue |-> <<>>, currentIndex |-> 0, answers |-> <<>>,
     masterySnapshot |-> <<>>, started |-> FALSE, complete |-> FALSE,
     originalQuestionCount |-> 0]

(***************************************************************************)
(* lib/quizEngine.ts.  Arrays are sequences; the code's index k is the     *)
(* sequence's index k + 1.                                                 *)
(***************************************************************************)
Min(a, b) == IF a <= b THEN a ELSE b

\* The values Math.floor(Math.random() * (i + 1)) can take in the loop of
\* shuffleArray over an array of length n: one j in 0..i for each i in 1..n-1.
RandomChoices(n) == {r \in [1..(n - 1) -> 0..(n - 1)] : \A i \in 1..(n - 1) : r[i] <= i}

RECURSIVE FisherYates(_, _, _)
FisherYates(shuffled, i, rnd) ==
    IF i <= 0 THEN shuffled
    ELSE LET j == rnd[i]
         IN FisherYates([shuffled EXCEPT ![i + 1] = shuffled[j + 1],
                                         ![j + 1] = shuffled[i + 1]],
                        i - 1, rnd)

\* Faulty variant of the loop: shuffled[i] = shuffled[j] without the swap.
RECURSIVE FisherYates_NoSwap(_, _, _)
FisherYates_NoSwap(shuffled, i, rnd) ==
    IF i <= 0 THEN shuffled
    ELSE LET j == rnd[i]
         IN FisherYates_NoSwap([shuffled EXCEPT ![i + 1] = shuffled[j + 1]],
                               i - 1, rnd)

shuffleArray_NoSwap(array, rnd) == FisherYates_NoSwap(array, Len(array) - 1, rnd)

shuffleArray(array, rnd) == FisherYates(array, Len(array) - 1, rnd)

\* The array passed to shuffleArray as it is after the call: the loop works
\* on the copy [...array].
shuffleArrayArgument(array, rnd) == array

\* new Map(rows.map((r) => [r.id, r])), read for the name: the last row of an
\* id wins.
nameMap(rows) ==
    [id \in {rows[k].id : k \in DOMAIN rows} |->
        LET last == CHOOSE k \in DOMAIN rows :
                        /\ rows[k].id = id
                        /\ \A j \in DOMAIN rows : rows[j].id = id => j <= k
        IN rows[last].name]

\* Faulty variant: a question whose concept is not found is left out.
enrichQuestions_DropsUnknown(questions, cs, conceptNames, topicNames) ==
    LET Known(q) == q.concept_id \in DOMAIN cs
        known == SelectSeq(questions, Known)
    IN [k \in DOMAIN known |->
           LET q == known[k]
           IN [id |-> q.id, concept_id |-> q.concept_id, topic_id |-> q.topic_id,
               options |-> q.options,
               correct_option_index |-> q.correct_option_index,
               conceptName |-> conceptNames[q.concept_id],
               topicName |-> IF q.topic_id \in DOMAIN topicNames
                             THEN topicNames[q.topic_id] ELSE "Unknown Topic",
               masteryLevel |-> cs[q.concept_id].level,
               streakCorrect |-> cs[q.concept_id].streakCorrect,
               streakIncorrect |-> cs[q.concept_id].streakIncorrect]]

\* enrichQuestions; cs and conceptNames are the conceptMap read for the
\* mastery fields and for the name, topicNames is the topicMap.  A name, a
\* level or a streak that is missing (or falsy) is replaced by the default.
enrichQuestions(questions, cs, conceptNames, topicNames) ==
    [k \in DOMAIN questions |->
        LET q == questions[k]
            found == q.concept_id \in DOMAIN cs
        IN [id |-> q.id, concept_id |-> q.concept_id, topic_id |-> q.topic_id,
            options |-> q.options,
            correct_option_index |-> q.correct_option_index,
            conceptName |-> IF /\ q.concept_id \in DOMAIN conceptNames
                               /\ conceptNames[q.concept_id] # ""
                            THEN conceptNames[q.concept_id]
                            ELSE "Unknown Concept",
            topicName |-> IF /\ q.topic_id \in DOMAIN topicNames
                             /\ topicNames[q.topic_id] # ""
                          THEN topicNames[q.topic_id]
                          ELSE "Unknown Topic",
            masteryLevel |-> IF found THEN cs[q.concept_id].level ELSE "Cooked",
            streakCorrect |-> IF found THEN cs[q.concept_id].streakCorrect ELSE 0,
            streakIncorrect |-> IF found THEN cs[q.concept_id].streakIncorrect ELSE 0]]

selectQuestionsNormal(questions, count, rnd) ==
    LET shuffled == shuffleArray(questions, rnd)
    IN SubSeq(shuffled, 1, Min(count, Len(shuffled)))

\* lib/constants.ts: the weight of a mastery level, higher = weaker.
MASTERY_WEIGHTS ==
    [l \in MasteryLevel |->
        CASE l = "Cooked" -> 3
          [] l = "Meh" -> 2
          [] l = "There's Hope" -> 1
          [] l = "Locked in" -> 0]

Abs(x) == IF x < 0 THEN -x ELSE x

\* Faulty variant: the topic filter is skipped.
filterByTopics_NoFilter(rows, selectedTopicIds) == rows

\* selectQuestions, the two filters at its start: the rows (questions or
\* concepts) of the selected topics, or every row when no topic is selected.
filterByTopics(rows, selectedTopicIds) ==
    LET InScope(r) == r.topic_id \in selectedTopicIds
    IN IF selectedTopicIds # {} THEN SelectSeq(rows, InScope) ELSE rows

\* new Map(concepts.map((c) => [c.id, c])): the last row of an id wins.
conceptMap(conceptList) ==
    [id \in {conceptList[k].id : k \in DOMAIN conceptList} |->
        LET last == CHOOSE k \in DOMAIN conceptList :
                        /\ conceptList[k].id = id
                        /\ \A j \in DOMAIN conceptList :
                              conceptList[j].id = id => j <= k
            c == conceptList[last]
        IN [level |-> c.mastery_level, streakCorrect |-> c.streak_correct,
            streakIncorrect |-> c.streak_incorrect]]

RECURSIVE SumWeights(_)
SumWeights(conceptList) ==
    IF conceptList = <<>> THEN 0
    ELSE MASTERY_WEIGHTS[Head(conceptList).mastery_level]
            + SumWeights(Tail(conceptList))

\* computeTopicsForSelection.  averageMasteryWeight is the rational
\* totalWeight / conceptCount (0 when the topic has no concept); the model
\* keeps its numerator and denominator.
computeTopicsForSelection(topics, conceptList, questions) ==
    [k \in DOMAIN topics |->
        LET OfTopic(r) == r.topic_id = topics[k].id
            topicConcepts == SelectSeq(conceptList, OfTopic)
            topicQuestions == SelectSeq(questions, OfTopic)
        IN [id |-> topics[k].id,
            questionCount |-> Len(topicQuestions),
            conceptCount |-> Len(topicConcepts),
            totalWeight |-> SumWeights(topicConcepts)]]

averageNum(t) == IF t.conceptCount > 0 THEN t.totalWeight ELSE 0

averageDen(t) == IF t.conceptCount > 0 THEN t.conceptCount ELSE 1

\* Faulty variant: no tie band, topics are ordered by the weight difference alone.
compareTopics_NoTieBand(a, b) ==
    averageNum(a) * averageDen(b) - averageNum(b) * averageDen(a)

\* The comparator of selectQuestionsSuggestedTopics: masteryDiff (here times
\* the positive product of the two denominators) when |masteryDiff| > 0.1,
\* else b.questionCount - a.questionCount.
compareTopics(a, b) ==
    LET diffNum == averageNum(a) * averageDen(b) - averageNum(b) * averageDen(a)
        den == averageDen(a) * averageDen(b)
    IN IF 10 * Abs(diffNum) > den
       THEN diffNum
       ELSE b.questionCount - a.questionCount

\* Array.prototype.sort with compareTopics: a stable insertion sort (for the
\* one or two topics of the model every stable sort gives this result).
RECURSIVE insertTopic(_, _)
insertTopic(sorted, t) ==
    IF sorted = <<>> \/ compareTopics(sorted[Len(sorted)], t) <= 0
    THEN Append(sorted, t)
    ELSE Append(insertTopic(SubSeq(sorted, 1, Len(sorted) - 1), t),
                sorted[Len(sorted)])

RECURSIVE sortTopics(_)
sortTopics(ts) ==
    IF ts = <<>> THEN <<>>
    ELSE insertTopic(sortTopics(SubSeq(ts, 1, Len(ts) - 1)), ts[Len(ts)])

\* Faulty variant of the loop below: each step adds the questions of every
\* topic taken so far, not only of the topic taken in this step.
RECURSIVE gatherPool_Cumulative(_, _, _, _, _)
gatherPool_Cumulative(sortedTopics, k, questions, count, questionPool) ==
    IF k > Len(sortedTopics) \/ Len(questionPool) >= count
    THEN questionPool
    ELSE LET OfTopics(q) == \E j \in 1..k : q.topic_id = sortedTopics[j].id
         IN gatherPool_Cumulative(sortedTopics, k + 1, questions, count,
                questionPool \o SelectSeq(questions, OfTopics))

\* "Take topics until we have enough questions": the for loop over
\* sortedTopics from its k-th topic on.
RECURSIVE gatherPool(_, _, _, _, _)
gatherPool(sortedTopics, k, questions, count, questionPool) ==
    IF k > Len(sortedTopics) \/ Len(questionPool) >= count
    THEN questionPool
    ELSE LET OfTopic(q) == q.topic_id = sortedTopics[k].id
         IN gatherPool(sortedTopics, k + 1, questions, count,
                       questionPool \o SelectSeq(questions, OfTopic))

slice(array, count) == SubSeq(array, 1, Min(count, Len(array)))

\* Faulty variant: see gatherPool_Cumulative.
suggestedTopicsPool_Cumulative(questions, topicsForSelection, count) ==
    LET HasQuestions(t) == t.questionCount > 0
        sortedTopics == sortTopics(SelectSeq(topicsForSelection, HasQuestions))
    IN IF Len(sortedTopics) = 0
       THEN questions
       ELSE gatherPool_Cumulative(sortedTopics, 1, questions, count, <<>>)

\* Faulty variant: the loop has no break and takes every sorted topic.
suggestedTopicsPool_NoBreak(questions, topicsForSelection, count) ==
    LET HasQuestions(t) == t.questionCount > 0
        sortedTopics == sortTopics(SelectSeq(topicsForSelection, HasQuestions))
        InSorted(q) == \E j \in DOMAIN sortedTopics : q.topic_id = sortedTopics[j].id
    IN IF Len(sortedTopics) = 0
       THEN questions
       ELSE SelectSeq(questions, InSorted)

\* The array selectQuestionsSuggestedTopics shuffles: the questions of the
\* sorted topics taken, or all questions when no topic has a question.
suggestedTopicsPool(questions, topicsForSelection, count) ==
    LET HasQuestions(t) == t.questionCount > 0
        sortedTopics == sortTopics(SelectSeq(topicsForSelection, HasQuestions))
    IN IF Len(sortedTopics) = 0
       THEN questions
       ELSE gatherPool(sortedTopics, 1, questions, count, <<>>)

\* selectQuestionsSuggestedTopics.  rnd holds the random choices of the one
\* shuffle the call makes.
selectQuestionsSuggestedTopics(questions, topicsForSelection, count, rnd) ==
    slice(shuffleArray(suggestedTopicsPool(questions, topicsForSelection, count),
                       rnd), count)

\* Faulty variant: the weight is used without the floor of 0.1.
conceptWeight_NoFloor(level) == 20 * MASTERY_WEIGHTS[level]

\* Math.max(MASTERY_WEIGHTS[level], 0.1), in units of 1/20.
conceptWeight(level) ==
    IF 20 * MASTERY_WEIGHTS[level] > 2 THEN 20 * MASTERY_WEIGHTS[level] ELSE 2

RECURSIVE totalWeightOf(_)
totalWeightOf(availableConcepts) ==
    IF availableConcepts = <<>> THEN 0
    ELSE conceptWeight(Head(availableConcepts).mastery_level)
            + totalWeightOf(Tail(availableConcepts))

\* The sum of the weights of the concepts before the k-th.
RECURSIVE weightBefore(_, _)
weightBefore(availableConcepts, k) ==
    IF k <= 1 THEN 0
    ELSE weightBefore(availableConcepts, k - 1)
            + conceptWeight(availableConcepts[k - 1].mastery_level)

\* The values of Math.random() * totalWeight, a number in [0, totalWeight),
\* in units of 1/20.  The draw depends on the value only through the interval
\* of the cumulative sum it lies in: the values taken are the lower end of
\* each concept's interval and the value one unit above it.
RandomWeights(availableConcepts) ==
    LET totalWeight == totalWeightOf(availableConcepts)
    IN IF totalWeight = 0 THEN {0}
       ELSE {r \in UNION {{weightBefore(availableConcepts, k),
                           weightBefore(availableConcepts, k) + 1} :
                              k \in DOMAIN availableConcepts} :
                r < totalWeight}

\* The for loop of the weighted draw from the k-th available concept on:
\* the index of the first concept at which random drops to 0 or below, 0 when
\* there is none.
RECURSIVE weightedScan(_, _, _)
weightedScan(availableConcepts, k, random) ==
    IF k > Len(availableConcepts) THEN 0
    ELSE LET r == random - conceptWeight(availableConcepts[k].mastery_level)
         IN IF r <= 0 THEN k ELSE weightedScan(availableConcepts, k + 1, r)

\* The concept selected by the weighted draw, with the fallback to the last one.
weightedDraw(availableConcepts, random) ==
    LET k == weightedScan(availableConcepts, 1, random)
    IN IF k = 0 THEN availableConcepts[Len(availableConcepts)]
       ELSE availableConcepts[k]

\* concepts.filter((c) => questionsByConcept.has(c.id))
conceptsWithQuestions(questions, conceptList) ==
    LET HasQuestion(c) == \E k \in DOMAIN questions : questions[k].concept_id = c.id
    IN SelectSeq(conceptList, HasQuestion)

twAvailableConcepts(withQuestions, usedConceptIds) ==
    LET NotUsed(c) == c.id \notin usedConceptIds
    IN SelectSeq(withQuestions, NotUsed)

\* questionsByConcept.get(conceptId) without the questions used already.
twAvailableQuestions(questions, conceptId, usedQuestionIds) ==
    LET Available(q) == q.concept_id = conceptId /\ q.id \notin usedQuestionIds
    IN SelectSeq(questions, Available)

\* The locals of selectQuestionsTargetWeakness when its loop is entered.
twInitial ==
    [selectedQuestions |-> <<>>, usedConceptIds |-> {}, usedQuestionIds |-> {},
     availableConcepts |-> <<>>, selectedConcept |-> "none"]

\* Faulty variant: the drawn concept is not added to usedConceptIds.
twIteration_ConceptNotUsed(local, questions, withQuestions, random, pick) ==
    LET availableConcepts ==
            twAvailableConcepts(withQuestions, local.usedConceptIds)
        selectedConcept == weightedDraw(availableConcepts, random)
        availableQuestions ==
            twAvailableQuestions(questions, selectedConcept.id,
                                 local.usedQuestionIds)
        randomQuestion == availableQuestions[pick + 1]
    IN IF Len(availableQuestions) > 0
       THEN [selectedQuestions |-> Append(local.selectedQuestions, randomQuestion),
             usedConceptIds |-> local.usedConceptIds,
             usedQuestionIds |-> local.usedQuestionIds \cup {randomQuestion.id},
             availableConcepts |-> availableConcepts,
             selectedConcept |-> selectedConcept.id]
       ELSE [local EXCEPT
                !.availableConcepts = availableConcepts,
                !.selectedConcept = selectedConcept.id]

\* One pass of the while loop of selectQuestionsTargetWeakness.  random is
\* the value of Math.random() * totalWeight, pick the value of
\* Math.floor(Math.random() * availableQuestions.length).
twIteration(local, questions, withQuestions, random, pick) ==
    LET availableConcepts ==
            twAvailableConcepts(withQuestions, local.usedConceptIds)
        selectedConcept == weightedDraw(availableConcepts, random)
        availableQuestions ==
            twAvailableQuestions(questions, selectedConcept.id,
                                 local.usedQuestionIds)
        randomQuestion == availableQuestions[pick + 1]
    IN IF Len(availableQuestions) > 0
       THEN [selectedQuestions |-> Append(local.selectedQuestions, randomQuestion),
             usedConceptIds |-> local.usedConceptIds \cup {selectedConcept.id},
             usedQuestionIds |-> local.usedQuestionIds \cup {randomQuestion.id},
             availableConcepts |-> availableConcepts,
             selectedConcept |-> selectedConcept.id]
       ELSE [local EXCEPT
                !.usedConceptIds = local.usedConceptIds \cup {selectedConcept.id},
                !.availableConcepts = availableConcepts,
                !.selectedConcept = selectedConcept.id]

\* The loop condition of selectQuestionsTargetWeakness, with the break on an
\* empty availableConcepts.
twLoopContinues(local, withQuestions, count) ==
    /\ Len(local.selectedQuestions) < count
    /\ Cardinality(local.usedConceptIds) < Len(withQuestions)
    /\ Len(twAvailableConcepts(withQuestions, local.usedConceptIds)) # 0

\* After the loop: questions.filter((q) => !usedQuestionIds.has(q.id)).
twRemaining(local, questions) ==
    LET NotUsed(q) == q.id \notin local.usedQuestionIds
    IN SelectSeq(questions, NotUsed)

\* The fill with the shuffled remaining questions; rndFill holds the choices
\* of the shuffle.
twFill(local, questions, count, rndFill) ==
    LET shuffledRemaining == shuffleArray(twRemaining(local, questions), rndFill)
    IN IF Len(local.selectedQuestions) < count
       THEN local.selectedQuestions
               \o slice(shuffledRemaining, count - Len(local.selectedQuestions))
       ELSE local.selectedQuestions

\* The end of selectQuestions: the mastery snapshot of the concepts in the
\* quiz and the conversion to queued questions.
selectQuestionsResult(selectedQuestions, cs, availableCount) ==
    LET conceptsInQuiz ==
            {selectedQuestions[k].concept_id : k \in DOMAIN selectedQuestions}
        masterySnapshot ==
            [c \in conceptsInQuiz \cap DOMAIN cs |-> cs[c]]
        queuedQuestions ==
            [k \in DOMAIN selectedQuestions |->
                [id |-> selectedQuestions[k].id,
                 concept_id |-> selectedQuestions[k].concept_id,
                 topic_id |-> selectedQuestions[k].topic_id,
                 options |-> selectedQuestions[k].options,
                 correct_option_index |-> selectedQuestions[k].correct_option_index,
                 conceptName |-> selectedQuestions[k].conceptName,
                 topicName |-> selectedQuestions[k].topicName,
                 masteryLevel |-> selectedQuestions[k].masteryLevel,
                 streakCorrect |-> selectedQuestions[k].streakCorrect,
                 streakIncorrect |-> selectedQuestions[k].streakIncorrect,
                 appearanceCount |-> 0,
                 maxAppearances |-> 3]]
    IN [questions |-> queuedQuestions,
        effectiveCount |-> Len(queuedQuestions),
        availableCount |-> availableCount,
        masterySnapshot |-> masterySnapshot]

\* selectQuestions in mode 'normal' (and the default branch, which is the same).
selectQuestions(questions, cs, conceptNames, topicNames, selectedTopicIds, numQuestions, rnd) ==
    LET filteredQuestions == filterByTopics(questions, selectedTopicIds)
        enrichedQuestions ==
            enrichQuestions(filteredQuestions, cs, conceptNames, topicNames)
        availableCount == Len(enrichedQuestions)
        selectedQuestions ==
            selectQuestionsNormal(enrichedQuestions, numQuestions, rnd)
    IN selectQuestionsResult(selectedQuestions, cs, availableCount)

\* Faulty variant: firstAttempts.set runs for every answer, the last one stays.
RECURSIVE lastAttemptsFrom(_, _)
lastAttemptsFrom(answers, attempts) ==
    IF answers = <<>> THEN attempts
    ELSE LET answer == Head(answers)
             Has(k) == attempts[k].questionId = answer.questionId
         IN lastAttemptsFrom(Tail(answers),
                IF \E k \in DOMAIN attempts : Has(k)
                THEN [k \in DOMAIN attempts |->
                         IF Has(k) THEN answer ELSE attempts[k]]
                ELSE Append(attempts, answer))

firstAttemptsOf_LastWins(answers) == lastAttemptsFrom(answers, <<>>)

\* computeQuizSummary, its first loop: the values of the firstAttempts map in
\* insertion order.
RECURSIVE firstAttemptsFrom(_, _)
firstAttemptsFrom(answers, firstAttempts) ==
    IF answers = <<>> THEN firstAttempts
    ELSE LET answer == Head(answers)
         IN firstAttemptsFrom(Tail(answers),
                IF \E k \in DOMAIN firstAttempts :
                       firstAttempts[k].questionId = answer.questionId
                THEN firstAttempts
                ELSE Append(firstAttempts, answer))

firstAttemptsOf(answers) == firstAttemptsFrom(answers, <<>>)

\* Math.round((correctFirstTry / totalQuestions) * 100): the nearest integer,
\* a half rounded up.
roundPercent(correctFirstTry, totalQuestions) ==
    (200 * correctFirstTry + totalQuestions) \div (2 * totalQuestions)

\* computeQuizSummary, its second loop: the values of the conceptResults map
\* in insertion order.
RECURSIVE conceptResultsFrom(_, _, _, _)
conceptResultsFrom(answers, masterySnapshot, currentMastery, conceptResults) ==
    IF answers = <<>> THEN conceptResults
    ELSE LET answer == Head(answers)
             Has(k) == conceptResults[k].conceptId = answer.conceptId
             withConcept ==
                 IF \E k \in DOMAIN conceptResults : Has(k)
                 THEN conceptResults
                 ELSE Append(conceptResults,
                        [conceptId |-> answer.conceptId,
                         masteryBefore |->
                             IF answer.conceptId \in DOMAIN masterySnapshot
                             THEN masterySnapshot[answer.conceptId].level
                             ELSE "Cooked",
                         masteryAfter |->
                             IF answer.conceptId \in DOMAIN currentMastery
                             THEN currentMastery[answer.conceptId].level
                             ELSE "Cooked",
                         improved |-> FALSE,
                         decreased |-> FALSE,
                         attempts |-> 0,
                         correctAttempts |-> 0])
         IN conceptResultsFrom(Tail(answers), masterySnapshot, currentMastery,
                [k \in DOMAIN withConcept |->
                    IF withConcept[k].conceptId = answer.conceptId
                    THEN [withConcept[k] EXCEPT
                             !.attempts = @ + 1,
                             !.correctAttempts =
                                 IF answer.isCorrect THEN @ + 1 ELSE @]
                    ELSE withConcept[k]])

\* Faulty variant: the filter of conceptsUnchanged tests !r.improved only.
isUnchanged_NotImproved(r) == ~r.improved

\* The filter of conceptsUnchanged.
isUnchanged(r) == ~r.improved /\ ~r.decreased

computeQuizSummary(answers, masterySnapshot, currentMastery) ==
    LET firstAttempts == firstAttemptsOf(answers)
        totalQuestions == Len(firstAttempts)
        totalAttempts == Len(answers)
        IsCorrect(a) == a.isCorrect
        correctFirstTry == Len(SelectSeq(firstAttempts, IsCorrect))
        correctTotal == Len(SelectSeq(answers, IsCorrect))
        scorePercent ==
            IF totalQuestions > 0
            THEN roundPercent(correctFirstTry, totalQuestions)
            ELSE 0
        conceptResults ==
            conceptResultsFrom(answers, masterySnapshot, currentMastery, <<>>)
        allResults ==
            [k \in DOMAIN conceptResults |->
                LET beforeIndex == LevelIndex(conceptResults[k].masteryBefore)
                    afterIndex == LevelIndex(conceptResults[k].masteryAfter)
                IN [conceptResults[k] EXCEPT
                       !.improved = afterIndex > beforeIndex,
                       !.decreased = afterIndex < beforeIndex]]
        Improved(r) == r.improved
        Decreased(r) == r.decreased
        StillWeak(r) == r.masteryAfter = "Cooked" \/ r.masteryAfter = "Meh"
    IN [totalQuestions |-> totalQuestions,
        totalAttempts |-> totalAttempts,
        correctFirstTry |-> correctFirstTry,
        correctTotal |-> correctTotal,
        scorePercent |-> scorePercent,
        conceptsImproved |-> SelectSeq(allResults, Improved),
        conceptsUnchanged |-> SelectSeq(allResults, isUnchanged),
        conceptsDecreased |-> SelectSeq(allResults, Decreased),
        conceptsStillWeak |-> SelectSeq(allResults, StillWeak)]

\* What a call of requeueQuestionForActiveRecall(queue, currentIndex) leaves
\* behind: the returned value (null, or the new queue) and the array that was
\* passed in, as it is after the call.
Null(queue) == [isNull |-> TRUE, queue |-> <<>>, input |-> queue]

NoCall == [isNull |-> TRUE, queue |-> <<>>, input |-> <<>>]

\* Faulty variant: the cap is tested with > instead of >=.
requeueQuestionForActiveRecall_PastCap(queue, currentIndex) ==
    IF \/ currentIndex + 1 \notin DOMAIN queue
       \/ queue[currentIndex + 1].appearanceCount
              > queue[currentIndex + 1].maxAppearances
    THEN Null(queue)
    ELSE LET question == queue[currentIndex + 1]
             requeuedQuestion ==
                 [question EXCEPT !.appearanceCount = question.appearanceCount + 1]
         IN [isNull |-> FALSE, queue |-> Append(queue, requeuedQuestion),
             input |-> queue]

\* Faulty variant: the clone is put right after the current question, not at the end.
requeueQuestionForActiveRecall_InsertNext(queue, currentIndex) ==
    IF \/ currentIndex + 1 \notin DOMAIN queue
       \/ queue[currentIndex + 1].appearanceCount
              >= queue[currentIndex + 1].maxAppearances
    THEN Null(queue)
    ELSE LET question == queue[currentIndex + 1]
             requeuedQuestion ==
                 [question EXCEPT !.appearanceCount = question.appearanceCount + 1]
         IN [isNull |-> FALSE,
             queue |-> SubSeq(queue, 1, currentIndex + 1)
                         \o <<requeuedQuestion>>
                         \o SubSeq(queue, currentIndex + 2, Len(queue)),
             input |-> queue]

\* Faulty variant: the clone keeps the appearanceCount of the original.
requeueQuestionForActiveRecall_NoIncrement(queue, currentIndex) ==
    IF \/ currentIndex + 1 \notin DOMAIN queue
       \/ queue[currentIndex + 1].appearanceCount
              >= queue[currentIndex + 1].maxAppearances
    THEN Null(queue)
    ELSE [isNull |-> FALSE, queue |-> Append(queue, queue[currentIndex + 1]),
          input |-> queue]

requeueQuestionForActiveRecall(queue, currentIndex) ==
    IF \/ currentIndex + 1 \notin DOMAIN queue
       \/ queue[currentIndex + 1].appearanceCount
              >= queue[currentIndex + 1].maxAppearances
    THEN Null(queue)
    ELSE LET question == queue[currentIndex + 1]
             requeuedQuestion ==
                 [question EXCEPT !.appearanceCount = question.appearanceCount + 1]
         IN [isNull |-> FALSE, queue |-> Append(queue, requeuedQuestion),
             input |-> queue]


(***************************************************************************)
(* QuizTab.tsx: the state updaters of the runner                           *)
(***************************************************************************)
\* Faulty variant: the null check is dropped and the returned queue is always stored.
handleRequeueForRecall_NoNullCheck(prev) ==
    LET newQueue == requeueQuestionForActiveRecall(prev.questionQueue,
                                                   prev.currentIndex)
    IN [prev EXCEPT !.questionQueue = newQueue.queue]

\* Faulty variant: every requeue appends the current question twice.
handleRequeueForRecall_Twice(prev) ==
    LET newQueue == requeueQuestionForActiveRecall(prev.questionQueue,
                                                   prev.currentIndex)
    IN IF ~newQueue.isNull
       THEN [prev EXCEPT !.questionQueue =
                 Append(newQueue.queue, newQueue.queue[Len(newQueue.queue)])]
       ELSE prev

handleRequeueForRecall(prev) ==
    LET newQueue == requeueQuestionForActiveRecall(prev.questionQueue,
                                                   prev.currentIndex)
    IN IF ~newQueue.isNull
       THEN [prev EXCEPT !.questionQueue = newQueue.queue]
       ELSE prev

handleNextUpdater(prev) ==
    LET nextIndex == prev.currentIndex + 1
    IN IF nextIndex >= Len(prev.questionQueue)
       THEN [prev EXCEPT !.complete = TRUE]
       ELSE [prev EXCEPT !.currentIndex = nextIndex]

\* Faulty variant: the updater also stores the new mastery in the snapshot.
refreshQueueMastery_SnapshotToo(prev, newMastery) ==
    [prev EXCEPT
        !.questionQueue =
            [i \in DOMAIN prev.questionQueue |->
                IF i - 1 = prev.currentIndex
                THEN [prev.questionQueue[i] EXCEPT !.masteryLevel = newMastery.level]
                ELSE prev.questionQueue[i]],
        !.masterySnapshot =
            [c \in DOMAIN prev.masterySnapshot |->
                IF /\ prev.currentIndex + 1 \in DOMAIN prev.questionQueue
                   /\ c = prev.questionQueue[prev.currentIndex + 1].concept_id
                THEN newMastery
                ELSE prev.masterySnapshot[c]]]

\* The last setRuntimeState of handleAnswer: the entry at the index current
\* when the updater runs gets the new mastery level.
refreshQueueMastery(prev, newMastery) ==
    [prev EXCEPT !.questionQueue =
        [i \in DOMAIN prev.questionQueue |->
            IF i - 1 = prev.currentIndex
            THEN [prev.questionQueue[i] EXCEPT !.masteryLevel = newMastery.level]
            ELSE prev.questionQueue[i]]]

\* setConcepts of handleAnswer.
setConceptMastery(prev, conceptId, newMastery) ==
    [c \in DOMAIN prev |-> IF c = conceptId THEN newMastery ELSE prev[c]]

RemoveAt(s, i) == SubSeq(s, 1, i - 1) \o SubSeq(s, i + 1, Len(s))

(***************************************************************************)
(* MasterySpec: updateMastery from any input state                         *)
(***************************************************************************)
MasteryStates ==
    [level : MasteryLevel, streakCorrect : 0..MaxStreak,
     streakIncorrect : 0..MaxStreak]

RequeueIdle ==
    /\ rqPrev = INITIAL_RUNTIME_STATE
    /\ rqResult = NoCall
    /\ rqAfter = INITIAL_RUNTIME_STATE
    /\ rqCalls = 0

MasteryIdle ==
    /\ mInit = INITIAL_MASTERY_STATE
    /\ mPrev = INITIAL_MASTERY_STATE
    /\ mState = INITIAL_MASTERY_STATE
    /\ mHist = <<>>

RunnerIdle ==
    /\ mode = "setup"
    /\ isLoading = TRUE
    /\ tabQuestions = <<>>
    /\ questionRows = <<>>
    /\ activeRecall = FALSE
    /\ runtimeState = INITIAL_RUNTIME_STATE
    /\ concepts = <<>>
    /\ db = <<>>
    /\ inflight = <<>>
    /\ hasAnswered = FALSE
    /\ badQuestionId = "null"
    /\ quizStart = <<>>
    /\ answered = 0
    /\ runs = 0
    /\ lastStep = [op |-> "init"]

\* The value of selResult before a call has returned.
NoSelection ==
    [returned |-> [questions |-> <<>>, effectiveCount |-> 0,
                   availableCount |-> 0, masterySnapshot |-> <<>>],
     pool |-> <<>>]

SelectIdle ==
    /\ selParams = [questions |-> <<>>, concepts |-> <<>>, topics |-> <<>>,
                    selectedTopicIds |-> {}, mode |-> "normal",
                    numQuestions |-> 0]
    /\ selPc = "idle"
    /\ selLocal = twInitial
    /\ selResult = NoSelection

\* The value of sumResult before computeQuizSummary has been called.
NoSummary == [computed |-> FALSE, summary |-> <<>>]

SummaryIdle ==
    /\ sumArgs = [answers |-> <<>>, masterySnapshot |-> <<>>,
                  currentMastery |-> <<>>]
    /\ sumResult = NoSummary

MasteryInit ==
    /\ mInit \in MasteryStates
    /\ mPrev = mInit
    /\ mState = mInit
    /\ mHist = <<>>
    /\ RequeueIdle
    /\ RunnerIdle
    /\ SelectIdle
    /\ SummaryIdle

AnswerCorrect ==
    /\ Len(mHist) < MaxAnswers
    /\ mPrev' = mState
    /\ mState' = updateMastery(mState, TRUE)
    /\ mHist' = Append(mHist, TRUE)
    /\ UNCHANGED <<mInit, requeueVars, runnerVars, selectVars, summaryVars>>

AnswerIncorrect ==
    /\ Len(mHist) < MaxAnswers
    /\ mPrev' = mState
    /\ mState' = updateMastery(mState, FALSE)
    /\ mHist' = Append(mHist, FALSE)
    /\ UNCHANGED <<mInit, requeueVars, runnerVars, selectVars, summaryVars>>

MasteryNext == AnswerCorrect \/ AnswerIncorrect

MasterySpec == MasteryInit /\ [][MasteryNext]_vars


(***************************************************************************)
(* RequeueSpec: requeueQuestionForActiveRecall and handleRequeueForRecall  *)
(* on any queue of at most MaxRqLen entries and any index                  *)
(***************************************************************************)
QueuedQuestions ==
    {[id |-> q.id, concept_id |-> q.concept_id, topic_id |-> q.topic_id,
      options |-> q.options,
      correct_option_index |-> q.correct_option_index,
      masteryLevel |-> "Cooked", streakCorrect |-> 0, streakIncorrect |-> 0,
      appearanceCount |-> n, maxAppearances |-> MAX_QUESTION_APPEARANCES] :
        q \in UNION {{rows[i] : i \in DOMAIN rows} : rows \in SessionRows},
        n \in 0..MAX_QUESTION_APPEARANCES}

InputQueues == UNION {[1..n -> QueuedQuestions] : n \in 0..MaxRqLen}

RequeueInit ==
    /\ \E queue \in InputQueues, index \in 0..MaxRqLen :
          rqPrev = [INITIAL_RUNTIME_STATE EXCEPT
                       !.questionQueue = queue, !.currentIndex = index,
                       !.started = TRUE,
                       !.originalQuestionCount = Len(queue)]
    /\ rqResult = NoCall
    /\ rqAfter = rqPrev
    /\ rqCalls = 0
    /\ MasteryIdle
    /\ RunnerIdle
    /\ SelectIdle
    /\ SummaryIdle

\* The runner requeues the question at the current index.
Requeue ==
    /\ rqCalls = 0
    /\ rqResult' = requeueQuestionForActiveRecall(rqPrev.questionQueue,
                                                  rqPrev.currentIndex)
    /\ rqAfter' = handleRequeueForRecall(rqPrev)
    /\ rqCalls' = 1
    /\ UNCHANGED <<rqPrev, masteryVars, runnerVars, selectVars, summaryVars>>

\* After a successful requeue, the clone at the end of the new queue is
\* requeued in turn.
RequeueClone ==
    /\ rqCalls >= 1
    /\ rqCalls < MAX_QUESTION_APPEARANCES + 1
    /\ ~rqResult.isNull
    /\ LET prev == [rqAfter EXCEPT
                       !.currentIndex = Len(rqAfter.questionQueue) - 1]
       IN /\ rqPrev' = prev
          /\ rqResult' = requeueQuestionForActiveRecall(prev.questionQueue,
                                                        prev.currentIndex)
          /\ rqAfter' = handleRequeueForRecall(prev)
    /\ rqCalls' = rqCalls + 1
    /\ UNCHANGED <<masteryVars, runnerVars, selectVars, summaryVars>>

RequeueNext == Requeue \/ RequeueClone

RequeueSpec == RequeueInit /\ [][RequeueNext]_vars

(***************************************************************************)
(* SelectSpec: selectQuestions in its three modes.  The session has the    *)
(* topics t1 and t2; a question refers to a concept and a topic of the     *)
(* session, or to a concept (c9) or a topic (t9) that is not among the     *)
(* rows read.  selectQuestionsTargetWeakness takes one step per pass of    *)
(* its loop, the other two modes return in one step.                       *)
(***************************************************************************)
MaxSelCount == 3        \* largest numQuestions of a call in SelectSpec

SelTopics ==
    << [id |-> "t1", name |-> "Topic t1"], [id |-> "t2", name |-> "Topic t2"] >>

SelQuestionIds == <<"q1", "q2", "q3">>

SelQuestionRefs ==
    { [concept_id |-> "c1", topic_id |-> "t1"],
      [concept_id |-> "c2", topic_id |-> "t2"],
      [concept_id |-> "c9", topic_id |-> "t1"],
      [concept_id |-> "c1", topic_id |-> "t9"] }

SelQuestionLists ==
    UNION { { [k \in 1..n |->
                 [id |-> SelQuestionIds[k], concept_id |-> refs[k].concept_id,
                  topic_id |-> refs[k].topic_id, options |-> <<"a", "b">>,
                  correct_option_index |-> 0]] :
              refs \in [1..n -> SelQuestionRefs] } :
            n \in 0..Len(SelQuestionIds) }

ConceptRow(id, level, topicId) ==
    [id |-> id, name |-> "Concept " \o id,
     mastery_level |-> level, streak_correct |-> 0,
     streak_incorrect |-> 0, topic_id |-> topicId]

\* Seven concepts, three of them in t1 (average weight 2/3) and four in t2
\* (average weight 3/4): the averages differ by 1/12.
TieBandConcepts ==
    << ConceptRow("c1", "Meh", "t1"), ConceptRow("c2", "There's Hope", "t2"),
       ConceptRow("c3", "Locked in", "t1"), ConceptRow("c4", "Locked in", "t1"),
       ConceptRow("c5", "There's Hope", "t2"), ConceptRow("c6", "There's Hope", "t2"),
       ConceptRow("c7", "Locked in", "t2") >>

SelConceptLists ==
    { << ConceptRow("c1", l1, "t1"), ConceptRow("c2", l2, "t2") >> :
         l1 \in MasteryLevel, l2 \in MasteryLevel }
    \cup {TieBandConcepts}

QuizModes == {"normal", "targetWeakness", "suggestedTopics"}

SelectInit ==
    /\ selParams \in [questions : SelQuestionLists,
                      concepts : SelConceptLists,
                      topics : {SelTopics},
                      selectedTopicIds : SUBSET {"t1", "t2"},
                      mode : QuizModes,
                      numQuestions : 1..MaxSelCount]
    /\ selPc = "call"
    /\ selLocal = twInitial
    /\ selResult = NoSelection
    /\ MasteryIdle
    /\ RequeueIdle
    /\ RunnerIdle
    /\ SummaryIdle

\* Locals of selectQuestions.
SelFilteredQuestions ==
    filterByTopics(selParams.questions, selParams.selectedTopicIds)

SelFilteredConcepts ==
    filterByTopics(selParams.concepts, selParams.selectedTopicIds)

SelEnrichedQuestions ==
    enrichQuestions(SelFilteredQuestions, conceptMap(selParams.concepts),
                    nameMap(selParams.concepts), nameMap(selParams.topics))

SelWithQuestions ==
    conceptsWithQuestions(SelEnrichedQuestions, SelFilteredConcepts)

\* selectQuestions returns with the questions its mode selected.
SelReturn(selectedQuestions) ==
    /\ selResult' =
          [returned |-> selectQuestionsResult(selectedQuestions,
                                              conceptMap(selParams.concepts),
                                              Len(SelEnrichedQuestions)),
           pool |-> SelEnrichedQuestions]
    /\ selPc' = "done"

\* case 'normal'
SelectNormal ==
    /\ selPc = "call"
    /\ selParams.mode = "normal"
    /\ \E rnd \in RandomChoices(Len(SelEnrichedQuestions)) :
          /\ selResult' =
                [returned |->
                    selectQuestionsResult(
                        selectQuestionsNormal(SelEnrichedQuestions,
                                              selParams.numQuestions, rnd),
                        conceptMap(selParams.concepts),
                        Len(SelEnrichedQuestions)),
                 pool |-> shuffleArrayArgument(SelEnrichedQuestions, rnd)]
          /\ selPc' = "done"
    /\ UNCHANGED <<selParams, selLocal, masteryVars, requeueVars, runnerVars,
                   summaryVars>>

\* case 'suggestedTopics'
SelectSuggestedTopics ==
    /\ selPc = "call"
    /\ selParams.mode = "suggestedTopics"
    /\ LET Selected(t) == \/ selParams.selectedTopicIds = {}
                          \/ t.id \in selParams.selectedTopicIds
           topicsForSelection ==
               computeTopicsForSelection(SelectSeq(selParams.topics, Selected),
                                         SelFilteredConcepts,
                                         SelFilteredQuestions)
       IN \E rnd \in RandomChoices(Len(suggestedTopicsPool(SelEnrichedQuestions,
                                                           topicsForSelection,
                                                           selParams.numQuestions))) :
             SelReturn(selectQuestionsSuggestedTopics(SelEnrichedQuestions,
                                                      topicsForSelection,
                                                      selParams.numQuestions, rnd))
    /\ UNCHANGED <<selParams, selLocal, masteryVars, requeueVars, runnerVars,
                   summaryVars>>

\* case 'targetWeakness', up to the loop: with no concept that has a
\* question the function returns [] at once.
TargetWeaknessBegin ==
    /\ selPc = "call"
    /\ selParams.mode = "targetWeakness"
    /\ IF Len(SelWithQuestions) = 0
       THEN SelReturn(<<>>)
       ELSE /\ selPc' = "loop"
            /\ UNCHANGED selResult
    /\ UNCHANGED <<selParams, selLocal, masteryVars, requeueVars, runnerVars,
                   summaryVars>>

\* One pass of the while loop.
TargetWeaknessDraw ==
    /\ selPc = "loop"
    /\ twLoopContinues(selLocal, SelWithQuestions, selParams.numQuestions)
    /\ LET availableConcepts ==
               twAvailableConcepts(SelWithQuestions, selLocal.usedConceptIds)
       IN \E random \in RandomWeights(availableConcepts) :
             LET selectedConcept == weightedDraw(availableConcepts, random)
                 n == Len(twAvailableQuestions(SelEnrichedQuestions,
                                               selectedConcept.id,
                                               selLocal.usedQuestionIds))
             IN \E pick \in 0..(IF n > 0 THEN n - 1 ELSE 0) :
                   selLocal' = twIteration(selLocal, SelEnrichedQuestions,
                                           SelWithQuestions, random, pick)
    /\ UNCHANGED <<selParams, selPc, selResult, masteryVars, requeueVars,
                   runnerVars, summaryVars>>

\* The loop has ended: fill, final shuffle, return.
TargetWeaknessFinish ==
    /\ selPc = "loop"
    /\ ~twLoopContinues(selLocal, SelWithQuestions, selParams.numQuestions)
    /\ \E rndFill \in RandomChoices(Len(twRemaining(selLocal,
                                                    SelEnrichedQuestions))) :
          LET selectedQuestions == twFill(selLocal, SelEnrichedQuestions,
                                          selParams.numQuestions, rndFill)
          IN \E rndFinal \in RandomChoices(Len(selectedQuestions)) :
                SelReturn(shuffleArray(selectedQuestions, rndFinal))
    /\ UNCHANGED <<selParams, selLocal, masteryVars, requeueVars, runnerVars,
                   summaryVars>>

SelectNext ==
    \/ SelectNormal
    \/ SelectSuggestedTopics
    \/ TargetWeaknessBegin
    \/ TargetWeaknessDraw
    \/ TargetWeaknessFinish

SelectSpec == SelectInit /\ [][SelectNext]_vars

(***************************************************************************)
(* SummarySpec: computeQuizSummary on any answer log of at most MaxLog      *)
(* records.  q1 and q2 are questions of concept c1, q3 is one of c2; a     *)
(* concept may be absent from the snapshot and from the current mastery.   *)
(***************************************************************************)
MaxLog == 3             \* longest answer log in SummarySpec

AnswerRecords ==
    { [questionId |-> qc[1], conceptId |-> qc[2], isCorrect |-> b] :
         qc \in {<<"q1", "c1">>, <<"q2", "c1">>, <<"q3", "c2">>},
         b \in BOOLEAN }

AnswerLogs == UNION {[1..n -> AnswerRecords] : n \in 0..MaxLog}

\* The maps from some of the concepts c1, c2 to values of the given sets.
MapsInto(c1Values, c2Values) ==
    { [c \in D |-> IF c = "c1" THEN v1 ELSE v2] :
         D \in SUBSET {"c1", "c2"}, v1 \in c1Values, v2 \in c2Values }

SnapshotValues(levels) ==
    {[level |-> l, streakCorrect |-> 0, streakIncorrect |-> 0] : l \in levels}

CurrentValues(levels) == {[level |-> l] : l \in levels}

SummaryInit ==
    /\ sumArgs \in [answers : AnswerLogs,
                    masterySnapshot :
                        MapsInto(SnapshotValues(MasteryLevel),
                                 SnapshotValues({"Meh"})),
                    currentMastery :
                        MapsInto(CurrentValues(MasteryLevel),
                                 CurrentValues(MasteryLevel))]
    /\ sumResult = NoSummary
    /\ MasteryIdle
    /\ RequeueIdle
    /\ RunnerIdle
    /\ SelectIdle

ComputeSummary ==
    /\ ~sumResult.computed
    /\ sumResult' =
          [computed |-> TRUE,
           summary |-> computeQuizSummary(sumArgs.answers,
                                          sumArgs.masterySnapshot,
                                          sumArgs.currentMastery)]
    /\ UNCHANGED <<sumArgs, masteryVars, requeueVars, runnerVars, selectVars>>

SummaryNext == ComputeSummary

SummarySpec == SummaryInit /\ [][SummaryNext]_vars

(***************************************************************************)
(* Spec: the quiz tab.  One action per handler; handleAnswer is split at   *)
(* its await into the part that runs in the click (SelectOption), the     *)
(* database applying the update (DbWrite) and the part after the await     *)
(* (AnswerResume).                                                         *)
(***************************************************************************)
Step(op, isCorrect) == [op |-> op, isCorrect |-> isCorrect]

RunnerInit ==
    /\ mode = "setup"
    /\ isLoading = TRUE
    /\ tabQuestions = <<>>
    /\ questionRows \in SessionRows
    /\ activeRecall = FALSE
    /\ runtimeState = INITIAL_RUNTIME_STATE
    /\ concepts = <<>>
    /\ db \in [ConceptIds -> StartMasteries]
    /\ inflight = <<>>
    /\ hasAnswered = FALSE
    /\ badQuestionId = "null"
    /\ quizStart = <<>>
    /\ answered = 0
    /\ runs = 0
    /\ lastStep = Step("init", FALSE)
    /\ MasteryIdle
    /\ RequeueIdle
    /\ SelectIdle
    /\ SummaryIdle

\* fetchData completes: the rows are read into the concepts and questions
\* state (the read and the two setState calls taken as one step).
FetchDone ==
    /\ isLoading
    /\ concepts' = db
    /\ tabQuestions' = questionRows
    /\ isLoading' = FALSE
    /\ lastStep' = Step("fetch", FALSE)
    /\ UNCHANGED <<mode, questionRows, activeRecall, runtimeState, db, inflight,
                   hasAnswered,
                   quizStart, answered, runs, masteryVars, badQuestionId,
                   requeueVars, selectVars, summaryVars>>

\* QuizSetup: the questions the chosen topics offer (all when none is chosen).
availableQuestions(selectedTopicIds) ==
    Cardinality({i \in DOMAIN tabQuestions :
                    selectedTopicIds = {} \/ tabQuestions[i].topic_id \in selectedTopicIds})

\* handleStartQuiz with the config of QuizSetup (mode 'normal').
StartQuiz ==
    /\ mode = "setup"
    /\ ~isLoading
    /\ runs < MaxRuns
    /\ \E selectedTopicIds \in SUBSET TopicIds, questionCount \in QUESTION_COUNTS,
          ar \in BOOLEAN :
          /\ availableQuestions(selectedTopicIds) > 0
          /\ \E rnd \in RandomChoices(availableQuestions(selectedTopicIds)) :
                LET result == selectQuestions(tabQuestions, concepts,
                                              ConceptNames, TopicNames,
                                              selectedTopicIds, questionCount, rnd)
                IN IF Len(result.questions) = 0
                   THEN /\ activeRecall' = ar
                        /\ UNCHANGED <<runtimeState, mode, quizStart>>
                   ELSE /\ activeRecall' = ar
                        /\ runtimeState' =
                              [questionQueue |-> result.questions,
                               currentIndex |-> 0,
                               answers |-> <<>>,
                               masterySnapshot |-> result.masterySnapshot,
                               started |-> TRUE,
                               complete |-> FALSE,
                               originalQuestionCount |-> result.effectiveCount]
                        /\ mode' = "running"
                        /\ quizStart' = concepts
    /\ hasAnswered' = FALSE
    /\ runs' = runs + 1
    /\ lastStep' = Step("start", FALSE)
    /\ UNCHANGED <<tabQuestions, questionRows,
                   isLoading, answered, concepts, db, inflight, masteryVars, badQuestionId,
                   requeueVars, selectVars, summaryVars>>

\* Faulty variant: the runner requeues after every answer when Active Recall is on.
shouldRequeue_AnyAnswer(ar, isCorrect) == ar

\* QuizRunner.handleSelectOption: "if (activeRecall && !isCorrect)".
shouldRequeue(ar, isCorrect) == ar /\ ~isCorrect

\* QuizRunner: currentQuestion = questions[currentIndex].
CurrentQuestion == runtimeState.questionQueue[runtimeState.currentIndex + 1]

\* QuizRunner.handleSelectOption, with the synchronous part of handleAnswer
\* and handleRequeueForRecall, whose state updates React applies together.
SelectOption ==
    /\ mode = "running"
    /\ Len(runtimeState.questionQueue) > 0
    /\ ~hasAnswered
    /\ answered < MaxTotalAnswers
    /\ Len(inflight) < MaxInflight
    /\ \E optionIndex \in 0..(Len(CurrentQuestion.options) - 1) :
          LET currentQuestion == CurrentQuestion
              isCorrect == optionIndex = currentQuestion.correct_option_index
              conceptId == currentQuestion.concept_id
              answerRecord ==
                  [questionId |-> currentQuestion.id,
                   conceptId |-> conceptId,
                   selectedOptionIndex |-> optionIndex,
                   isCorrect |-> isCorrect,
                   appearanceNumber |-> currentQuestion.appearanceCount + 1]
              recorded == [runtimeState EXCEPT
                              !.answers = Append(runtimeState.answers, answerRecord)]
          IN /\ runtimeState' = IF shouldRequeue(activeRecall, isCorrect)
                                THEN handleRequeueForRecall(recorded)
                                ELSE recorded
             /\ inflight' =
                   IF conceptId \in DOMAIN concepts
                   THEN Append(inflight,
                               [conceptId |-> conceptId,
                                newMastery |-> updateMastery(concepts[conceptId],
                                                             isCorrect),
                                written |-> FALSE])
                   ELSE inflight
             /\ lastStep' = Step("answer", isCorrect)
    /\ hasAnswered' = TRUE
    /\ answered' = answered + 1
    /\ UNCHANGED <<tabQuestions, questionRows,
                   mode, isLoading, activeRecall, concepts, db, quizStart, runs,
                   masteryVars, badQuestionId,
                   requeueVars, selectVars, summaryVars>>

\* The database applies the update of a suspended handleAnswer call; the
\* requests of different calls are independent and may arrive in any order.
DbWrite ==
    /\ \E i \in DOMAIN inflight :
          /\ ~inflight[i].written
          /\ db' = [db EXCEPT ![inflight[i].conceptId] = inflight[i].newMastery]
          /\ inflight' = [inflight EXCEPT ![i].written = TRUE]
    /\ lastStep' = Step("dbWrite", FALSE)
    /\ UNCHANGED <<tabQuestions, questionRows,
                   mode, isLoading, activeRecall, runtimeState, concepts,
                   hasAnswered, quizStart, answered, runs, masteryVars, badQuestionId,
                   requeueVars, selectVars, summaryVars>>

\* handleAnswer after its await: setConcepts and the queue's mastery refresh.
AnswerResume ==
    /\ \E i \in DOMAIN inflight :
          /\ inflight[i].written
          /\ concepts' = setConceptMastery(concepts, inflight[i].conceptId,
                                           inflight[i].newMastery)
          /\ runtimeState' = refreshQueueMastery(runtimeState,
                                                 inflight[i].newMastery)
          /\ inflight' = RemoveAt(inflight, i)
    /\ lastStep' = Step("resume", FALSE)
    /\ UNCHANGED <<tabQuestions, questionRows,
                   mode, isLoading, activeRecall, db, hasAnswered, quizStart,
                   answered, runs, masteryVars, badQuestionId,
                   requeueVars, selectVars, summaryVars>>

\* QuizRunner.handleNext: onStopQuiz on the last question, else onNext; the
\* effect on currentIndex clears hasAnswered, the effect on complete switches
\* the tab to the summary.
NextQuestion ==
    /\ mode = "running"
    /\ hasAnswered
    /\ LET isLastQuestion ==
               runtimeState.currentIndex = Len(runtimeState.questionQueue) - 1
           next == IF isLastQuestion
                   THEN [runtimeState EXCEPT !.complete = TRUE]
                   ELSE handleNextUpdater(runtimeState)
       IN /\ runtimeState' = next
          /\ mode' = IF next.complete THEN "summary" ELSE mode
          /\ hasAnswered' = IF next.currentIndex # runtimeState.currentIndex
                            THEN FALSE ELSE hasAnswered
    /\ lastStep' = Step("next", FALSE)
    /\ UNCHANGED <<tabQuestions, questionRows,
                   isLoading, activeRecall, concepts, db, inflight, quizStart,
                   answered, runs, masteryVars, badQuestionId,
                   requeueVars, selectVars, summaryVars>>

\* handleStopQuiz from the Stop Quiz dialog.
StopQuiz ==
    /\ mode = "running"
    /\ runtimeState' = [runtimeState EXCEPT !.complete = TRUE]
    /\ mode' = "summary"
    /\ lastStep' = Step("stop", FALSE)
    /\ UNCHANGED <<tabQuestions, questionRows,
                   isLoading, activeRecall, concepts, db, inflight, hasAnswered,
                   quizStart, answered, runs, masteryVars, badQuestionId,
                   requeueVars, selectVars, summaryVars>>

\* The quizSummary memo is null outside summary mode and when no answer was
\* given; QuizSummary, with its Return to Setup button, renders only when it
\* is not null.
quizSummaryIsNull == mode # "summary" \/ Len(runtimeState.answers) = 0

\* The value of the quizSummary memo when it is not null; currentMastery is
\* built from the concepts state.
quizSummary ==
    computeQuizSummary(runtimeState.answers, runtimeState.masterySnapshot,
                       concepts)

\* handleReturnToSetup from the summary (shown when there is an answer).
ReturnToSetup ==
    /\ ~quizSummaryIsNull
    /\ runtimeState' = INITIAL_RUNTIME_STATE
    /\ activeRecall' = FALSE
    /\ mode' = "setup"
    /\ isLoading' = TRUE
    /\ hasAnswered' = FALSE
    /\ lastStep' = Step("return", FALSE)
    /\ UNCHANGED <<tabQuestions, questionRows,
                   concepts, db, inflight, quizStart, answered, runs, masteryVars, badQuestionId,
                   requeueVars, selectVars, summaryVars>>

\* The rewrite route's update of the flagged quiz_questions row: the text, the
\* options and the correct option are replaced, the concept rows are not read
\* or written.
rewriteQuestion(rows, questionId, correctOptionIndex) ==
    [i \in DOMAIN rows |->
        IF rows[i].id = questionId
        THEN [rows[i] EXCEPT !.correct_option_index = correctOptionIndex]
        ELSE rows[i]]

\* QuizRunner's Bad Question button, shown once the question is answered:
\* onBadQuestion(currentQuestion.id) is setBadQuestionId, which opens the
\* BadQuestionModal over the page.
BadQuestion ==
    /\ mode = "running"
    /\ Len(runtimeState.questionQueue) > 0
    /\ hasAnswered
    /\ badQuestionId = "null"
    /\ badQuestionId' = CurrentQuestion.id
    /\ lastStep' = Step("badQuestion", FALSE)
    /\ UNCHANGED <<tabQuestions, questionRows,
                   mode, isLoading, activeRecall, runtimeState, concepts, db,
                   inflight, hasAnswered, quizStart, answered, runs, masteryVars,
                   requeueVars, selectVars, summaryVars>>

\* BadQuestionModal confirmed: handleBadQuestion posts the rewrite, the route
\* replaces the row, and the modal closes.
BadQuestionConfirm ==
    /\ badQuestionId # "null"
    /\ \E i \in DOMAIN questionRows :
          /\ questionRows[i].id = badQuestionId
          /\ \E correctOptionIndex \in 0..(Len(questionRows[i].options) - 1) :
                questionRows' = rewriteQuestion(questionRows, badQuestionId,
                                                correctOptionIndex)
    /\ badQuestionId' = "null"
    /\ lastStep' = Step("badQuestionConfirm", FALSE)
    /\ UNCHANGED <<tabQuestions,
                   mode, isLoading, activeRecall, runtimeState, concepts, db,
                   inflight, hasAnswered, quizStart, answered, runs, masteryVars,
                   requeueVars, selectVars, summaryVars>>

\* BadQuestionModal cancelled: onClose is setBadQuestionId(null).
BadQuestionClose ==
    /\ badQuestionId # "null"
    /\ badQuestionId' = "null"
    /\ lastStep' = Step("badQuestionClose", FALSE)
    /\ UNCHANGED <<tabQuestions, questionRows,
                   mode, isLoading, activeRecall, runtimeState, concepts, db,
                   inflight, hasAnswered, quizStart, answered, runs, masteryVars,
                   requeueVars, selectVars, summaryVars>>

Next ==
    \/ FetchDone
    \/ StartQuiz
    \/ SelectOption
    \/ DbWrite
    \/ AnswerResume
    \/ NextQuestion
    \/ StopQuiz
    \/ ReturnToSetup

Spec == RunnerInit /\ [][Next]_vars

(***************************************************************************)
(* FlagSpec: the quiz tab with the Bad Question flow of                    *)
(* SessionDetailClient added to the handlers of Spec.                      *)
(***************************************************************************)
FlagNext ==
    \/ Next
    \/ BadQuestion
    \/ BadQuestionConfirm
    \/ BadQuestionClose

FlagSpec == RunnerInit /\ [][FlagNext]_vars

(***************************************************************************)
(* Properties of the active recall queue (RequeueSpec)                     *)
(***************************************************************************)
RqQueue == rqPrev.questionQueue

RqExists == rqPrev.currentIndex + 1 \in DOMAIN RqQueue

RqQuestion == RqQueue[rqPrev.currentIndex + 1]

\* C8: requeueQuestionForActiveRecall returns null exactly when
\* queue[currentIndex] does not exist or its appearanceCount >= maxAppearances;
\* so the clone of an entry with appearanceCount = maxAppearances - 1 cannot be
\* requeued; and on null handleRequeueForRecall returns the state it was given.
C8_NullExactlyAtCap ==
    rqCalls > 0 =>
        /\ rqResult.isNull <=>
              (~RqExists \/ RqQuestion.appearanceCount >= RqQuestion.maxAppearances)
        /\ (RqExists /\ RqQuestion.appearanceCount = RqQuestion.maxAppearances - 1)
              => ~rqResult.isNull
        /\ (rqCalls > 1 /\ RqQuestion.appearanceCount = RqQuestion.maxAppearances)
              => rqResult.isNull
        /\ rqResult.isNull => rqAfter = rqPrev

C8_Witness ==
    /\ rqCalls = 2
    /\ RqQuestion.appearanceCount = MAX_QUESTION_APPEARANCES
    /\ rqResult.isNull
    /\ rqAfter = rqPrev

\* C9: a successful requeue returns a queue one longer than the input, with the
\* input entries at their positions and, last, the entry at currentIndex with
\* appearanceCount one greater and nothing else changed (maxAppearances 3);
\* the array passed in is as it was.
C9_AppendsClone ==
    (rqCalls > 0 /\ ~rqResult.isNull) =>
        /\ Len(rqResult.queue) = Len(RqQueue) + 1
        /\ \A i \in DOMAIN RqQueue : rqResult.queue[i] = RqQueue[i]
        /\ rqResult.queue[Len(rqResult.queue)] =
              [RqQuestion EXCEPT !.appearanceCount = RqQuestion.appearanceCount + 1]
        /\ rqResult.queue[Len(rqResult.queue)].maxAppearances = 3
        /\ rqResult.input = RqQueue

C9_Witness ==
    /\ rqCalls = 1
    /\ Len(RqQueue) = 2 /\ rqPrev.currentIndex = 0
    /\ RqQueue[1].id # RqQueue[2].id
    /\ ~rqResult.isNull
    /\ Len(rqResult.queue) = 3
    /\ rqResult.queue[3].id = RqQueue[1].id

(***************************************************************************)
(* Properties of the mastery state machine (MasterySpec)                   *)
(***************************************************************************)
LastOutcome == mHist[Len(mHist)]

AllOutcomes(b) == \A i \in DOMAIN mHist : mHist[i] = b

ZeroStreaks(s) == s.streakCorrect = 0 /\ s.streakIncorrect = 0

\* Consecutive correct answers needed to leave a level upwards, and
\* consecutive incorrect answers needed to leave it downwards, as documented.
PromotionAfter(l) == IF l = "Cooked" THEN 3 ELSE 2

DemotionAfter(l) == 2

LevelAbove(l) == MASTERY_LEVELS[LevelIndex(l) + 1]

LevelBelow(l) == MASTERY_LEVELS[LevelIndex(l) - 1]

\* C1: after any single updateMastery transition, from any input state, a
\* correct answer leaves streakIncorrect = 0, an incorrect answer leaves
\* streakCorrect = 0, and so the two streaks are never both non-zero.
C1_StreaksExclusive ==
    Len(mHist) > 0 =>
        /\ LastOutcome => mState.streakIncorrect = 0
        /\ ~LastOutcome => mState.streakCorrect = 0
        /\ ~(mState.streakCorrect # 0 /\ mState.streakIncorrect # 0)

C1_Witness ==
    /\ Len(mHist) = 1
    /\ mInit.streakCorrect > 0 /\ mInit.streakIncorrect > 0
    /\ ~LastOutcome
    /\ mState.streakCorrect = 0 /\ mState.streakIncorrect > 0

\* C2: from level L with both streaks 0 and only correct answers, the level
\* stays L with streakCorrect = number of answers before the k-th answer and
\* becomes the next level with both streaks 0 at the k-th (k = 3 at Cooked,
\* 2 at Meh and There's Hope); Cooked with streakCorrect 2 plus one correct
\* answer gives Meh, 0, 0.
C2_PromotionLadder ==
    /\ (ZeroStreaks(mInit) /\ AllOutcomes(TRUE) /\ mInit.level # "Locked in") =>
          /\ Len(mHist) < PromotionAfter(mInit.level) =>
                mState = [level |-> mInit.level, streakCorrect |-> Len(mHist),
                          streakIncorrect |-> 0]
          /\ Len(mHist) = PromotionAfter(mInit.level) =>
                mState = [level |-> LevelAbove(mInit.level), streakCorrect |-> 0,
                          streakIncorrect |-> 0]
    /\ (/\ mInit = [level |-> "Cooked", streakCorrect |-> 2, streakIncorrect |-> 0]
        /\ mHist = <<TRUE>>) =>
          mState = [level |-> "Meh", streakCorrect |-> 0, streakIncorrect |-> 0]

C2_Witness ==
    /\ mInit = INITIAL_MASTERY_STATE
    /\ mHist = <<TRUE, TRUE, TRUE>>
    /\ mState.level = "Meh"

\* C3: from level L with both streaks 0 and only incorrect answers, after one
\* answer the level is still L with streakIncorrect = 1 and streakCorrect = 0,
\* and at the second answer the level drops one step with both streaks 0.
C3_DemotionLadder ==
    (ZeroStreaks(mInit) /\ AllOutcomes(FALSE) /\ mInit.level # "Cooked") =>
        /\ Len(mHist) = 1 =>
              mState = [level |-> mInit.level, streakCorrect |-> 0,
                        streakIncorrect |-> 1]
        /\ Len(mHist) = DemotionAfter(mInit.level) =>
              mState = [level |-> LevelBelow(mInit.level), streakCorrect |-> 0,
                        streakIncorrect |-> 0]

C3_Witness ==
    /\ mInit = [level |-> "Locked in", streakCorrect |-> 0, streakIncorrect |-> 0]
    /\ mHist = <<FALSE, FALSE>>
    /\ mState.level = "There's Hope"

\* C4: a correct answer at Locked in keeps the level and adds 1 to
\* streakCorrect, an incorrect answer at Cooked keeps the level and adds 1 to
\* streakIncorrect (the opposite streak being reset as in C1), and the level
\* is always one of the four levels.
C4_Saturation ==
    /\ mState.level \in MasteryLevel
    /\ (Len(mHist) > 0 /\ LastOutcome /\ mPrev.level = "Locked in") =>
          mState = [level |-> "Locked in",
                    streakCorrect |-> mPrev.streakCorrect + 1,
                    streakIncorrect |-> 0]
    /\ (Len(mHist) > 0 /\ ~LastOutcome /\ mPrev.level = "Cooked") =>
          mState = [level |-> "Cooked", streakCorrect |-> 0,
                    streakIncorrect |-> mPrev.streakIncorrect + 1]

C4_Witness ==
    /\ Len(mHist) >= 2
    /\ LastOutcome
    /\ mPrev.level = "Locked in" /\ mPrev.streakCorrect >= 2
    /\ mState.level = "Locked in"

\* C5 as claimed: from every state at Meh, whatever its streaks, two
\* consecutive incorrect answers give Cooked with streakIncorrect = 0.
C5_AnyMehState ==
    (mInit.level = "Meh" /\ mHist = <<FALSE, FALSE>>) =>
        (mState.level = "Cooked" /\ mState.streakIncorrect = 0)

\* C5 amended: from every state at Meh two consecutive incorrect answers give
\* Cooked with streakCorrect = 0; streakIncorrect is 0 when the state started
\* with streakIncorrect = 0, and 1 otherwise (the first answer already demotes
\* and the second one counts at Cooked).
C5_MehTwoIncorrect ==
    (mInit.level = "Meh" /\ mHist = <<FALSE, FALSE>>) =>
        /\ mState.level = "Cooked"
        /\ mState.streakCorrect = 0
        /\ mState.streakIncorrect = IF mInit.streakIncorrect = 0 THEN 0 ELSE 1

C5_Witness ==
    /\ mInit.level = "Meh"
    /\ mInit.streakIncorrect = 0 /\ mInit.streakCorrect > 0
    /\ mHist = <<FALSE, FALSE>>
    /\ mState = [level |-> "Cooked", streakCorrect |-> 0, streakIncorrect |-> 0]


(***************************************************************************)
(* Properties of the quiz run (Spec)                                       *)
(***************************************************************************)
Queue == runtimeState.questionQueue

\* updateMastery applied once per answer of the log that is about conceptId,
\* in the order of the log, starting from state.
RECURSIVE ApplyAnswers(_, _, _)
ApplyAnswers(state, answers, conceptId) ==
    IF answers = <<>> THEN state
    ELSE ApplyAnswers(IF Head(answers).conceptId = conceptId
                      THEN updateMastery(state, Head(answers).isCorrect)
                      ELSE state,
                      Tail(answers), conceptId)

ExpectedMastery(conceptId) ==
    ApplyAnswers(quizStart[conceptId], runtimeState.answers, conceptId)

\* C6: once every database update of the run has completed, the mastery of a
\* concept in the concepts state and in its persisted row is the result of
\* applying updateMastery once per answer for that concept, in the order the
\* user answered, to the concept's state at quiz start.
C6_AnswersAppliedInOrder ==
    (mode \in {"running", "summary"} /\ inflight = <<>>) =>
        \A c \in DOMAIN quizStart :
            /\ concepts[c] = ExpectedMastery(c)
            /\ db[c] = ExpectedMastery(c)

\* C7: no question id occupies more than 3 positions of the question queue.
C7_AtMostThreeAppearances ==
    \A id \in QuestionIds :
        Cardinality({i \in DOMAIN Queue : Queue[i].id = id})
            <= MAX_QUESTION_APPEARANCES

\* A queue entry without the mastery level shown with it.
Entry(q) == [q EXCEPT !.masteryLevel = "Cooked"]

SameRun == runtimeState.started /\ runtimeState'.started

RecallStep ==
    activeRecall /\ lastStep'.op = "answer" /\ ~lastStep'.isCorrect

\* C10 as claimed: during a run the queue is unchanged by every step except an
\* incorrect answer under Active Recall, which appends at most one entry; with
\* Active Recall off its length stays originalQuestionCount.
C10_QueueUnchangedOtherwise ==
    [][SameRun =>
          /\ ~RecallStep => Queue' = Queue
          /\ Len(Queue') <= Len(Queue) + 1
          /\ ~activeRecall => Len(Queue') = runtimeState'.originalQuestionCount]_vars

\* C10 amended: during a run the queue gets longer only by an incorrect answer
\* under Active Recall, which appends at most one entry; every other step
\* leaves the length of the queue and the entries' questions and
\* appearanceCounts as they are (the step of handleAnswer after its await may
\* replace the masteryLevel of the entry at the current index); with Active
\* Recall off the length stays originalQuestionCount.
C10_QueueGrowsOnlyOnRecall ==
    [][SameRun =>
          /\ ~RecallStep => Len(Queue') = Len(Queue)
          /\ Len(Queue') <= Len(Queue) + 1
          /\ Len(Queue') >= Len(Queue)
          /\ \A i \in DOMAIN Queue : Entry(Queue'[i]) = Entry(Queue[i])
          /\ lastStep'.op # "resume" => \A i \in DOMAIN Queue : Queue'[i] = Queue[i]
          /\ ~activeRecall => Len(Queue') = runtimeState'.originalQuestionCount]_vars

C10_Witness ==
    /\ mode = "running"
    /\ activeRecall
    /\ lastStep = Step("answer", FALSE)
    /\ Len(Queue) = runtimeState.originalQuestionCount + 1

(***************************************************************************)
(* Properties of selectQuestions (SelectSpec)                              *)
(***************************************************************************)
SelDone == selPc = "done"

Selected == selResult.returned.questions

\* The topic summaries of the two topics as selectQuestions computes them
\* for the suggestedTopics mode when both topics are in scope.
TopicSummaries ==
    computeTopicsForSelection(selParams.topics, SelFilteredConcepts,
                              SelFilteredQuestions)

BothTopicsInScope ==
    selParams.selectedTopicIds = {} \/ selParams.selectedTopicIds = {"t1", "t2"}

\* averageMasteryWeight(a) - averageMasteryWeight(b), times the product of
\* the two concept counts.
WeightDiff(a, b) ==
    averageNum(a) * averageDen(b) - averageNum(b) * averageDen(a)

\* |averageMasteryWeight(a) - averageMasteryWeight(b)| > 0.1
DifferByMoreThanTenth(a, b) ==
    10 * Abs(WeightDiff(a, b)) > averageDen(a) * averageDen(b)

AllSelectedFrom(topicId) ==
    \A i \in DOMAIN Selected : Selected[i].topic_id = topicId

\* C11 (as claimed): in each mode and for every input, the number of
\* questions selectQuestions returns is min(numQuestions, availableCount),
\* availableCount being the number of questions left by the topic filter.
C11_LengthIsMin ==
    SelDone =>
        Len(Selected) = Min(selParams.numQuestions, Len(SelFilteredQuestions))

\* C12: in each mode, no question id occurs twice in the queue returned
\* (the ids of the input questions are pairwise distinct).
C12_NoDuplicateIds ==
    SelDone =>
        \A i, j \in DOMAIN Selected :
            Selected[i].id = Selected[j].id => i = j

C12_Witness ==
    /\ SelDone
    /\ selParams.mode = "suggestedTopics"
    /\ Len(Selected) = 3
    /\ \E i, j \in DOMAIN Selected : Selected[i].topic_id # Selected[j].topic_id

C14_OnePerConcept ==
    (SelDone /\ selParams.mode = "targetWeakness"
             /\ selParams.numQuestions <= Len(SelWithQuestions)) =>
        /\ Len(Selected) = selParams.numQuestions
        /\ \A i, j \in DOMAIN Selected :
              Selected[i].concept_id = Selected[j].concept_id => i = j

C14_Witness ==
    /\ SelDone
    /\ selParams.mode = "targetWeakness"
    /\ selParams.numQuestions = 2
    /\ Len(SelWithQuestions) = 2
    /\ Len(SelEnrichedQuestions) = 3
    /\ \A k \in DOMAIN SelEnrichedQuestions :
          SelEnrichedQuestions[k].concept_id \in {"c1", "c2"}
    /\ Len(Selected) = 2

C16_WeakerTopicSelected ==
    (SelDone /\ selParams.mode = "suggestedTopics" /\ BothTopicsInScope
             /\ \A k \in DOMAIN TopicSummaries :
                   /\ TopicSummaries[k].questionCount >= selParams.numQuestions
                   /\ TopicSummaries[k].conceptCount > 0
             /\ DifferByMoreThanTenth(TopicSummaries[1], TopicSummaries[2])) =>
        IF WeightDiff(TopicSummaries[1], TopicSummaries[2]) > 0
        THEN AllSelectedFrom(TopicSummaries[1].id)
        ELSE AllSelectedFrom(TopicSummaries[2].id)

\* C17: in suggestedTopics mode, two topics with questions whose average
\* mastery weights differ by at most 0.1 are ordered by descending
\* questionCount: when the topic with more questions holds at least
\* numQuestions questions, every question selected comes from it.
C17_TieBandByQuestionCount ==
    (SelDone /\ selParams.mode = "suggestedTopics" /\ BothTopicsInScope
             /\ \A k \in DOMAIN TopicSummaries :
                   TopicSummaries[k].questionCount > 0
             /\ ~DifferByMoreThanTenth(TopicSummaries[1], TopicSummaries[2])) =>
        \A a, b \in DOMAIN TopicSummaries :
            (/\ TopicSummaries[a].questionCount > TopicSummaries[b].questionCount
             /\ TopicSummaries[a].questionCount >= selParams.numQuestions) =>
                AllSelectedFrom(TopicSummaries[a].id)

C17_Witness ==
    /\ SelDone
    /\ selParams.mode = "suggestedTopics"
    /\ selParams.selectedTopicIds = {}
    /\ selParams.concepts = TieBandConcepts
    /\ TopicSummaries[1].questionCount = 1
    /\ TopicSummaries[2].questionCount = 2
    /\ selParams.numQuestions = 2
    /\ Len(Selected) = 2
    /\ AllSelectedFrom("t2")

\* C18: with selectedTopicIds non-empty, every question of the queue returned
\* has its topic_id among them, in each mode; with selectedTopicIds empty the
\* questions of all topics are available.
C18_TopicScope ==
    SelDone =>
        /\ selParams.selectedTopicIds # {} =>
              \A i \in DOMAIN Selected :
                  Selected[i].topic_id \in selParams.selectedTopicIds
        /\ selParams.selectedTopicIds = {} =>
              /\ selResult.returned.availableCount = Len(selParams.questions)
              /\ \A k \in DOMAIN selParams.questions :
                    \E i \in DOMAIN selResult.pool :
                        selResult.pool[i].id = selParams.questions[k].id

C18_Witness ==
    /\ SelDone
    /\ selParams.mode = "targetWeakness"
    /\ selParams.selectedTopicIds = {"t1"}
    /\ selParams.numQuestions = 3
    /\ Len(selParams.questions) = 3
    /\ \E k \in DOMAIN selParams.questions : selParams.questions[k].topic_id = "t2"
    /\ Len(Selected) = 2
    /\ Selected[1].concept_id = Selected[2].concept_id

(***************************************************************************)
(* Properties of computeQuizSummary (SummarySpec)                          *)
(***************************************************************************)
Log == sumArgs.answers

Summary == sumResult.summary

LoggedQuestions == {Log[i].questionId : i \in DOMAIN Log}

TouchedConcepts == {Log[i].conceptId : i \in DOMAIN Log}

\* The position of the earliest record of question q in the log.
EarliestRecord(q) ==
    CHOOSE i \in DOMAIN Log :
        /\ Log[i].questionId = q
        /\ \A j \in DOMAIN Log : Log[j].questionId = q => i <= j

FirstTryCorrect == {q \in LoggedQuestions : Log[EarliestRecord(q)].isCorrect}

\* p is x rounded to the nearest integer, x = num / den, a half rounded up.
IsRounded(p, num, den) ==
    /\ 2 * den * p <= 2 * num + den
    /\ 2 * num + den < 2 * den * (p + 1)

\* C19: totalQuestions is the number of distinct question ids, totalAttempts
\* the number of records, correctFirstTry the number of questions whose
\* earliest record is correct, correctTotal the number of correct records and
\* scorePercent correctFirstTry / totalQuestions * 100 rounded; with an empty
\* log scorePercent is 0 and the four concept buckets are empty.
C19_SummaryCounts ==
    sumResult.computed =>
        /\ Summary.totalQuestions = Cardinality(LoggedQuestions)
        /\ Summary.totalAttempts = Len(Log)
        /\ Summary.correctFirstTry = Cardinality(FirstTryCorrect)
        /\ Summary.correctTotal = Cardinality({i \in DOMAIN Log : Log[i].isCorrect})
        /\ IF Log = <<>>
           THEN /\ Summary.scorePercent = 0
                /\ Summary.conceptsImproved = <<>>
                /\ Summary.conceptsUnchanged = <<>>
                /\ Summary.conceptsDecreased = <<>>
                /\ Summary.conceptsStillWeak = <<>>
           ELSE IsRounded(Summary.scorePercent,
                          100 * Cardinality(FirstTryCorrect),
                          Cardinality(LoggedQuestions))

C19_Witness ==
    /\ sumResult.computed
    /\ Len(Log) = 3
    /\ Log[1].questionId = "q1" /\ ~Log[1].isCorrect
    /\ Log[2].questionId = "q1" /\ Log[2].isCorrect
    /\ Log[3].questionId = "q3" /\ Log[3].isCorrect
    /\ Summary.totalQuestions = 2
    /\ Summary.correctFirstTry = 1
    /\ Summary.correctTotal = 2
    /\ Summary.scorePercent = 50

MasteryBefore(c) ==
    IF c \in DOMAIN sumArgs.masterySnapshot
    THEN sumArgs.masterySnapshot[c].level ELSE "Cooked"

MasteryAfter(c) ==
    IF c \in DOMAIN sumArgs.currentMastery
    THEN sumArgs.currentMastery[c].level ELSE "Cooked"

\* The number of results of concept c in a bucket.
InBucket(bucket, c) ==
    Cardinality({k \in DOMAIN bucket : bucket[k].conceptId = c})

\* C20: each concept touched by an answer has one ConceptResult, which lies
\* in exactly one of conceptsImproved (after above before), conceptsUnchanged
\* (equal) and conceptsDecreased (after below before), so the sizes of the
\* three sum to the number of touched concepts; it lies in conceptsStillWeak
\* exactly when masteryAfter is Cooked or Meh.
C20_BucketsPartition ==
    sumResult.computed =>
        /\ \A c \in TouchedConcepts :
              LET before == LevelIndex(MasteryBefore(c))
                  after == LevelIndex(MasteryAfter(c))
              IN /\ InBucket(Summary.conceptsImproved, c)
                       = IF after > before THEN 1 ELSE 0
                 /\ InBucket(Summary.conceptsUnchanged, c)
                       = IF after = before THEN 1 ELSE 0
                 /\ InBucket(Summary.conceptsDecreased, c)
                       = IF after < before THEN 1 ELSE 0
                 /\ InBucket(Summary.conceptsStillWeak, c)
                       = IF MasteryAfter(c) \in {"Cooked", "Meh"} THEN 1 ELSE 0
        /\ Len(Summary.conceptsImproved) + Len(Summary.conceptsUnchanged)
              + Len(Summary.conceptsDecreased) = Cardinality(TouchedConcepts)
        /\ \A k \in DOMAIN Summary.conceptsStillWeak :
              Summary.conceptsStillWeak[k].conceptId \in TouchedConcepts

C20_Witness ==
    /\ sumResult.computed
    /\ TouchedConcepts = {"c1", "c2"}
    /\ Len(Summary.conceptsImproved) = 1
    /\ Summary.conceptsImproved[1].conceptId = "c1"
    /\ Summary.conceptsImproved[1].masteryAfter = "Meh"
    /\ Len(Summary.conceptsDecreased) = 1
    /\ Len(Summary.conceptsStillWeak) = 2

(***************************************************************************)
(* Properties of the quiz tab: summary, snapshot, flags, progress          *)
(***************************************************************************)
\* C21: whenever the quiz tab is in summary mode, after Stop Quiz at any point
\* of the run (before the first answer included) or after the last question,
\* a summary is shown and the user can return to setup from it.
C21_SummaryAlwaysShown ==
    mode = "summary" => (~quizSummaryIsNull /\ ENABLED ReturnToSetup)

\* The answers of a log that are not answers to the question questionId.
AnswersWithout(answers, questionId) ==
    SelectSeq(answers, LAMBDA a : a.questionId # questionId)

\* C24: a question flagged as bad does not count toward mastery: with the
\* question flagged and every database update of the run completed, the
\* persisted mastery of each concept of the run is what the answers to the
\* other questions give, as if the flagged question had not been answered.
C24_FlaggedDoesNotCount ==
    (mode = "running" /\ badQuestionId # "null" /\ inflight = <<>>) =>
        \A c \in DOMAIN quizStart :
            db[c] = ApplyAnswers(quizStart[c],
                                 AnswersWithout(runtimeState.answers, badQuestionId),
                                 c)

\* The ConceptResults of a summary: every result is in exactly one of the
\* three buckets.
ConceptResultsOf(summary) ==
    {summary.conceptsImproved[k] : k \in DOMAIN summary.conceptsImproved}
        \cup {summary.conceptsUnchanged[k] : k \in DOMAIN summary.conceptsUnchanged}
        \cup {summary.conceptsDecreased[k] : k \in DOMAIN summary.conceptsDecreased}

QueuedConcepts == {Queue[i].concept_id : i \in DOMAIN Queue}

\* C22: the mastery snapshot is the fixed 'before' baseline.  From the start
\* of a run on, whatever answer, database update, next, requeue or stop has
\* happened since, the snapshot holds, for exactly the concepts with a
\* question in the queue, the level and streaks the concept had when the run
\* started, and masteryBefore of every ConceptResult of the summary is the
\* level at quiz start.
C22_SnapshotIsBaseline ==
    runtimeState.started =>
        /\ DOMAIN runtimeState.masterySnapshot = QueuedConcepts
        /\ \A c \in QueuedConcepts : runtimeState.masterySnapshot[c] = quizStart[c]
        /\ ~quizSummaryIsNull =>
              \A r \in ConceptResultsOf(quizSummary) :
                  r.masteryBefore = quizStart[r.conceptId].level

C22_Witness ==
    /\ ~quizSummaryIsNull
    /\ lastStep.op = "stop"
    /\ \E r \in ConceptResultsOf(quizSummary) :
          /\ r.masteryAfter # r.masteryBefore
          /\ concepts[r.conceptId] # quizStart[r.conceptId]
          /\ runtimeState.masterySnapshot[r.conceptId] = quizStart[r.conceptId]

\* The answers an entry can still cause: its own and those of the clones that
\* requeueing can make of it.
AnswersLeftOf(q) == q.maxAppearances - q.appearanceCount + 1

RECURSIVE SumAnswersLeft(_, _)
SumAnswersLeft(queue, from) ==
    IF from > Len(queue) THEN 0
    ELSE AnswersLeftOf(queue[from]) + SumAnswersLeft(queue, from + 1)

\* An upper bound on the answer and next steps the run can still take: two
\* per answer that the entries from the current one on can cause, less one
\* when the current entry waits for its answer to be followed by next.
StepsLeft ==
    IF hasAnswered
    THEN 2 * SumAnswersLeft(Queue, runtimeState.currentIndex + 2) + 1
    ELSE 2 * SumAnswersLeft(Queue, runtimeState.currentIndex + 1)

AppearanceCountsOf(id) ==
    LET IsId(q) == q.id = id
        entries == SelectSeq(Queue, IsId)
    IN [k \in DOMAIN entries |-> entries[k].appearanceCount]

SelConceptRow(id) ==
    selParams.concepts[CHOOSE k \in DOMAIN selParams.concepts :
                           selParams.concepts[k].id = id]

SelConceptIds == {selParams.concepts[k].id : k \in DOMAIN selParams.concepts}

SelTopicIds == {selParams.topics[k].id : k \in DOMAIN selParams.topics}

SelTopicRow(id) ==
    selParams.topics[CHOOSE k \in DOMAIN selParams.topics :
                         selParams.topics[k].id = id]

\* C23: enrichQuestions never drops or reorders: its output has the length of
\* its input and the same question at every position; a question whose
\* concept id is not among the concepts gets conceptName 'Unknown Concept',
\* masteryLevel Cooked and both streaks 0, one whose topic id is not among the
\* topics gets topicName 'Unknown Topic', and every other question gets the
\* name, level and streaks of its concept row and the name of its topic row.
C23_EnrichKeepsEveryQuestion ==
    SelDone =>
        /\ Len(selResult.pool) = Len(SelFilteredQuestions)
        /\ \A k \in DOMAIN SelFilteredQuestions :
              LET q == SelFilteredQuestions[k]
                  e == selResult.pool[k]
              IN /\ e.id = q.id
                 /\ e.concept_id = q.concept_id
                 /\ e.topic_id = q.topic_id
                 /\ e.options = q.options
                 /\ e.correct_option_index = q.correct_option_index
                 /\ IF q.concept_id \in SelConceptIds
                    THEN /\ e.conceptName = SelConceptRow(q.concept_id).name
                         /\ e.masteryLevel = SelConceptRow(q.concept_id).mastery_level
                         /\ e.streakCorrect = SelConceptRow(q.concept_id).streak_correct
                         /\ e.streakIncorrect
                               = SelConceptRow(q.concept_id).streak_incorrect
                    ELSE /\ e.conceptName = "Unknown Concept"
                         /\ e.masteryLevel = "Cooked"
                         /\ e.streakCorrect = 0
                         /\ e.streakIncorrect = 0
                 /\ e.topicName = IF q.topic_id \in SelTopicIds
                                  THEN SelTopicRow(q.topic_id).name
                                  ELSE "Unknown Topic"

C23_Witness ==
    /\ SelDone
    /\ Len(selResult.pool) = 3
    /\ selResult.pool[1].conceptName = "Concept c2"
    /\ selResult.pool[1].masteryLevel = "Locked in"
    /\ selResult.pool[2].conceptName = "Unknown Concept"
    /\ selResult.pool[2].masteryLevel = "Cooked"
    /\ selResult.pool[3].topicName = "Unknown Topic"
    /\ selResult.pool[3].conceptName = "Concept c1"

\* The sorted topic list of selectQuestionsSuggestedTopics for the call: the
\* topics in scope that have a question, in the order of the sort.
SuggestedSortedTopics ==
    LET InScope(t) == \/ selParams.selectedTopicIds = {}
                      \/ t.id \in selParams.selectedTopicIds
        HasQuestions(t) == t.questionCount > 0
    IN sortTopics(SelectSeq(computeTopicsForSelection(
                                SelectSeq(selParams.topics, InScope),
                                SelFilteredConcepts, SelFilteredQuestions),
                            HasQuestions))

\* The number of questions of the pool that belong to one of the first p
\* sorted topics.
CumulativeQuestionCount(p) ==
    Cardinality({k \in DOMAIN selResult.pool :
                    \E j \in 1..p :
                        selResult.pool[k].topic_id = SuggestedSortedTopics[j].id})

\* The length of the shortest prefix of the sorted topics whose cumulative
\* question count reaches numQuestions (every topic when none does).
ShortestPrefix ==
    IF \E p \in DOMAIN SuggestedSortedTopics :
           CumulativeQuestionCount(p) >= selParams.numQuestions
    THEN CHOOSE p \in DOMAIN SuggestedSortedTopics :
             /\ CumulativeQuestionCount(p) >= selParams.numQuestions
             /\ \A r \in 1..(p - 1) :
                   CumulativeQuestionCount(r) < selParams.numQuestions
    ELSE Len(SuggestedSortedTopics)

\* C25: suggestedTopics selects only questions of the shortest prefix of the
\* sorted topic list whose cumulative question count reaches numQuestions, so
\* no question of a later topic is selected when the earlier topics supply
\* numQuestions questions; when no topic has a question the result is
\* min(numQuestions, pool size) questions of the whole pool.
C25_ShortestPrefixOnly ==
    (SelDone /\ selParams.mode = "suggestedTopics") =>
        IF Len(SuggestedSortedTopics) = 0
        THEN /\ Len(Selected) = Min(selParams.numQuestions, Len(selResult.pool))
             /\ \A i \in DOMAIN Selected :
                   \E k \in DOMAIN selResult.pool :
                       Selected[i].id = selResult.pool[k].id
        ELSE \A i \in DOMAIN Selected :
                \E j \in 1..ShortestPrefix :
                    Selected[i].topic_id = SuggestedSortedTopics[j].id

C25_Witness ==
    /\ SelDone
    /\ selParams.mode = "suggestedTopics"
    /\ selParams.numQuestions = 2
    /\ Len(SuggestedSortedTopics) = 2
    /\ ShortestPrefix = 1
    /\ Len(selResult.pool) = 3
    /\ Len(Selected) = 2
    /\ \E k \in DOMAIN selResult.pool :
          selResult.pool[k].topic_id = SuggestedSortedTopics[2].id

(***************************************************************************)
(* Properties of the streaks and of hysteresis (MasterySpec)               *)
(***************************************************************************)
\* The bounds of C26 on the streaks of a state.
StreaksWithinBounds(s) ==
    /\ s.level = "Cooked" => s.streakCorrect <= 2
    /\ s.level \in {"Meh", "There's Hope"} => s.streakCorrect <= 1
    /\ s.level \in {"Meh", "There's Hope", "Locked in"} => s.streakIncorrect <= 1

\* C26: INITIAL_MASTERY_STATE has, and every updateMastery call preserves,
\* streakCorrect <= 2 at Cooked, streakCorrect <= 1 at Meh and There's Hope and
\* streakIncorrect <= 1 at Meh, There's Hope and Locked in, so every state
\* reachable from INITIAL_MASTERY_STATE has them; the two streaks left without
\* a bound do grow: an incorrect answer at Cooked and a correct answer at
\* Locked in add one to the streak and keep the level.
C26_StreakBounds ==
    /\ StreaksWithinBounds(INITIAL_MASTERY_STATE)
    /\ StreaksWithinBounds(mInit) => StreaksWithinBounds(mState)
    /\ (Len(mHist) > 0 /\ mPrev.level = "Cooked" /\ ~LastOutcome) =>
          /\ mState.level = "Cooked"
          /\ mState.streakIncorrect = mPrev.streakIncorrect + 1
    /\ (Len(mHist) > 0 /\ mPrev.level = "Locked in" /\ LastOutcome) =>
          /\ mState.level = "Locked in"
          /\ mState.streakCorrect = mPrev.streakCorrect + 1

C26_Witness ==
    /\ mInit = INITIAL_MASTERY_STATE
    /\ mHist = <<TRUE, TRUE, TRUE, TRUE>>
    /\ mPrev = [level |-> "Meh", streakCorrect |-> 0, streakIncorrect |-> 0]
    /\ mState = [level |-> "Meh", streakCorrect |-> 1, streakIncorrect |-> 0]

\* Every answer of the history differs from the one before it.
Alternating == \A i \in 1..(Len(mHist) - 1) : mHist[i] # mHist[i + 1]

\* C27: hysteresis.  From any level with both streaks 0 a strictly alternating
\* sequence of answers, whichever answer it starts with, never changes the
\* level; and a single updateMastery call, from any input state, changes the
\* level by at most one step.
C27_Hysteresis ==
    /\ (ZeroStreaks(mInit) /\ Alternating) => mState.level = mInit.level
    /\ Len(mHist) > 0 =>
          Abs(LevelIndex(mState.level) - LevelIndex(mPrev.level)) <= 1

C27_Witness ==
    /\ ZeroStreaks(mInit)
    /\ mInit.level = "Meh"
    /\ mHist = <<TRUE, FALSE, TRUE, FALSE>>
    /\ mState.level = "Meh"

(***************************************************************************)
(* Consistency of the summary's numbers (SummarySpec)                      *)
(***************************************************************************)
RECURSIVE SumAttempts(_)
SumAttempts(results) ==
    IF results = <<>> THEN 0
    ELSE Head(results).attempts + SumAttempts(Tail(results))

RECURSIVE SumCorrectAttempts(_)
SumCorrectAttempts(results) ==
    IF results = <<>> THEN 0
    ELSE Head(results).correctAttempts + SumCorrectAttempts(Tail(results))

\* The ConceptResults of the summary, bucket after bucket.
SummaryResults ==
    Summary.conceptsImproved \o Summary.conceptsUnchanged
        \o Summary.conceptsDecreased

\* C30: in every summary correctFirstTry <= totalQuestions <= totalAttempts,
\* correctFirstTry <= correctTotal <= totalAttempts, 0 <= scorePercent <= 100,
\* and over all ConceptResults the attempts sum to totalAttempts and the
\* correctAttempts sum to correctTotal.
C30_SummaryConsistent ==
    sumResult.computed =>
        /\ Summary.correctFirstTry <= Summary.totalQuestions
        /\ Summary.totalQuestions <= Summary.totalAttempts
        /\ Summary.correctFirstTry <= Summary.correctTotal
        /\ Summary.correctTotal <= Summary.totalAttempts
        /\ 0 <= Summary.scorePercent
        /\ Summary.scorePercent <= 100
        /\ SumAttempts(SummaryResults) = Summary.totalAttempts
        /\ SumCorrectAttempts(SummaryResults) = Summary.correctTotal

C30_Witness ==
    /\ sumResult.computed
    /\ Summary.totalAttempts = 3
    /\ Summary.totalQuestions = 2
    /\ Summary.correctFirstTry = 1
    /\ Summary.correctTotal = 2
    /\ Summary.scorePercent = 50
    /\ Len(SummaryResults) = 2
    /\ Len(Summary.conceptsDecreased) = 1
    /\ SummaryResults[1].attempts = 2

====
